---- MODULE Spec2Model ----
(***************************************************************************)
(* Parametric equalizer of meadowlark-dsp: the coefficient engine          *)
(* (MeadowEqDspCoeff), the per-channel state engine (MeadowEqDspState) and *)
(* the stereo-linked processor (MeadowEqDspStereoLinked).                  *)
(*                                                                         *)
(* Numbers.  f64 values are fixed-point integers with F64 fractional       *)
(* units, f32 values with F32 fractional units; to_f32 rescales.  Option   *)
(* <usize> is an integer with NoneIdx for None.  A panic (failed assert,   *)
(* index out of bounds, push onto a full ArrayVec) ends the run: `panic`   *)
(* names its kind and no operation is enabled afterwards.                  *)
(***************************************************************************)
EXTENDS Integers, Sequences, FiniteSets, TLC

\* ------------------------------------------------------------------ bounds
\* NUM_BANDS, the const generic of the three engines.
NumBands == 3
\* Number of API calls in one run.
MaxCalls == 4
\* Number of calls on the state engine in one run.
MaxSyncCalls == 5
\* Largest filter-memory value a tick leaves behind.
MaxVal == 1
\* Number of API calls in one run that hands whole snapshots to set_params.
MaxSnapCalls == 6

\* --------------------------------------------------------------- constants
MAX_ONE_POLE_FILTERS == 2
F64 == 1024
F32 == 256
SampleRate == 48000
Q_BUTTERWORTH_ORD2 == 724
ORD4_Q_SCALE == 358
ORD6_Q_SCALE == 205
ORD8_Q_SCALE == 143
DEFAULT_Q == 724
NoneIdx == -1

NUM_BANDS_PLUS_8 == NumBands + 8
Q_BUTTERWORTH_ORD4 == <<554, 1338>>
Q_BUTTERWORTH_ORD6 == <<530, 724, 1978>>
Q_BUTTERWORTH_ORD8 == <<522, 616, 922, 2624>>

BandIdx == 0 .. (NumBands - 1)
Min(a, b) == IF a < b THEN a ELSE b
Max(a, b) == IF a > b THEN a ELSE b

\* ------------------------------------------------------- parameter model
FilterOrder == {"X1", "X2", "X4", "X6", "X8"}
BandType == {"Bell", "LowShelf", "HighShelf", "Notch", "Allpass"}

BandParamsDefault ==
  [enabled |-> FALSE, band_type |-> "Notch", cutoff_hz |-> 1000,
   q |-> DEFAULT_Q, gain_db |-> 0]

LpOrHpBandParamsDefault ==
  [enabled |-> FALSE, cutoff_hz |-> 21480, q |-> DEFAULT_Q, order |-> "X2"]

EqParamsDefault ==
  [lp_band |-> [LpOrHpBandParamsDefault EXCEPT !.cutoff_hz = 20],
   hp_band |-> LpOrHpBandParamsDefault,
   bands |-> [i \in BandIdx |-> BandParamsDefault]]

\* The values the enumerated edits draw from.
Cutoffs == {1000}
BandTypeInputs == {"Notch", "Bell"}

\* ------------------------------------------------- filter design (f64)
\* tan(PI * cutoff_hz * sample_rate_recip), tabulated at the cutoffs in use
\* and linear (tan x ~ x) elsewhere.
g(cutoff_hz) ==
  CASE cutoff_hz = 20 -> 1
    [] cutoff_hz = 1000 -> 67
    [] cutoff_hz = 2000 -> 135
    [] cutoff_hz = 3000 -> 204
    [] cutoff_hz = 21480 -> 6157
    [] OTHER -> (3217 * cutoff_hz) \div SampleRate

\* 10^(gain_db / 40), tabulated.
gain_db_to_a(gain_db) ==
  CASE gain_db = 0 -> F64
    [] gain_db = 6 -> 1446
    [] gain_db = -6 -> 725
    [] OTHER -> F64 + (59 * gain_db)

\* a.sqrt() for the amplitudes gain_db_to_a produces.
sqrt_a(a) ==
  CASE a = F64 -> F64
    [] a = 1446 -> 1217
    [] a = 725 -> 862
    [] OTHER -> (a + F64) \div 2

q_norm(q) == (q * ((F64 * F64) \div Q_BUTTERWORTH_ORD2)) \div F64

scale_q_norm_for_order(qn, scale) ==
  IF qn > F64 THEN F64 + (((qn - F64) * scale) \div F64) ELSE qn

from_g_and_k(gg, k, m0, m1, m2) ==
  LET a1 == (F64 * F64 * F64) \div ((F64 * F64) + gg * (gg + k))
      a2 == (gg * a1) \div F64
      a3 == (gg * a2) \div F64
  IN [a1 |-> a1, a2 |-> a2, a3 |-> a3, m0 |-> m0, m1 |-> m1, m2 |-> m2]

recip(q) == (F64 * F64) \div q

lowpass_ord2(cutoff_hz, q) == from_g_and_k(g(cutoff_hz), recip(q), 0, 0, F64)

lowpass_ord4(cutoff_hz, q) ==
  LET qn == scale_q_norm_for_order(q_norm(q), ORD4_Q_SCALE)
  IN [i \in 1 .. 2 |->
        from_g_and_k(g(cutoff_hz), recip((qn * Q_BUTTERWORTH_ORD4[i]) \div F64),
                     0, 0, F64)]

lowpass_ord6(cutoff_hz, q) ==
  LET qn == scale_q_norm_for_order(q_norm(q), ORD6_Q_SCALE)
  IN [i \in 1 .. 3 |->
        from_g_and_k(g(cutoff_hz), recip((qn * Q_BUTTERWORTH_ORD6[i]) \div F64),
                     0, 0, F64)]

lowpass_ord8(cutoff_hz, q) ==
  LET qn == scale_q_norm_for_order(q_norm(q), ORD8_Q_SCALE)
  IN [i \in 1 .. 4 |->
        from_g_and_k(g(cutoff_hz), recip((qn * Q_BUTTERWORTH_ORD8[i]) \div F64),
                     0, 0, F64)]

highpass_ord2(cutoff_hz, q) ==
  from_g_and_k(g(cutoff_hz), recip(q), F64, 0 - recip(q), 0 - F64)

highpass_ord4(cutoff_hz, q) ==
  LET qn == scale_q_norm_for_order(q_norm(q), ORD4_Q_SCALE)
  IN [i \in 1 .. 2 |->
        LET k == recip((qn * Q_BUTTERWORTH_ORD4[i]) \div F64)
        IN from_g_and_k(g(cutoff_hz), k, F64, 0 - k, 0 - F64)]

highpass_ord6(cutoff_hz, q) ==
  LET qn == scale_q_norm_for_order(q_norm(q), ORD6_Q_SCALE)
  IN [i \in 1 .. 3 |->
        LET k == recip((qn * Q_BUTTERWORTH_ORD6[i]) \div F64)
        IN from_g_and_k(g(cutoff_hz), k, F64, 0 - k, 0 - F64)]

highpass_ord8(cutoff_hz, q) ==
  LET qn == scale_q_norm_for_order(q_norm(q), ORD8_Q_SCALE)
  IN [i \in 1 .. 4 |->
        LET k == recip((qn * Q_BUTTERWORTH_ORD8[i]) \div F64)
        IN from_g_and_k(g(cutoff_hz), k, F64, 0 - k, 0 - F64)]

notch(cutoff_hz, q) ==
  from_g_and_k(g(cutoff_hz), recip(q), F64, 0 - recip(q), 0)

bell(cutoff_hz, q, gain_db) ==
  LET a == gain_db_to_a(gain_db)
      k == (F64 * F64) \div ((q * a) \div F64)
  IN from_g_and_k(g(cutoff_hz), k, F64,
                  (k * (((a * a) \div F64) - F64)) \div F64, 0)

low_shelf(cutoff_hz, q, gain_db) ==
  LET a == gain_db_to_a(gain_db)
      k == recip(q)
  IN from_g_and_k((g(cutoff_hz) * F64) \div sqrt_a(a), k, F64,
                  (k * (a - F64)) \div F64, ((a * a) \div F64) - F64)

high_shelf(cutoff_hz, q, gain_db) ==
  LET a == gain_db_to_a(gain_db)
      k == recip(q)
  IN from_g_and_k((g(cutoff_hz) * F64) \div sqrt_a(a), k, (a * a) \div F64,
                  (((k * (F64 - a)) \div F64) * a) \div F64,
                  F64 - ((a * a) \div F64))

allpass(cutoff_hz, q) ==
  from_g_and_k(g(cutoff_hz), recip(q), F64, 0 - (2 * recip(q)), 0)

\* SvfCoeff::to_f32: every field narrowed from f64 to f32.
svf_to_f32(c) ==
  [a1 |-> (c.a1 * F32) \div F64, a2 |-> (c.a2 * F32) \div F64,
   a3 |-> (c.a3 * F32) \div F64, m0 |-> (c.m0 * F32) \div F64,
   m1 |-> (c.m1 * F32) \div F64, m2 |-> (c.m2 * F32) \div F64]

\* exp(-2 PI cutoff_hz sample_rate_recip), tabulated at the cutoffs in use.
exp_decay(cutoff_hz) ==
  CASE cutoff_hz = 20 -> 1021
    [] cutoff_hz = 1000 -> 898
    [] cutoff_hz = 2000 -> 788
    [] cutoff_hz = 3000 -> 691
    [] cutoff_hz = 21480 -> 61
    [] OTHER -> Max(0, F64 - ((6434 * cutoff_hz) \div SampleRate))

one_pole_lowpass(cutoff_hz) ==
  LET b1 == exp_decay(cutoff_hz)
  IN [a0 |-> F64 - b1, b1 |-> b1, m0 |-> 0, m1 |-> F64]

one_pole_highpass(cutoff_hz) ==
  LET b1 == exp_decay(cutoff_hz)
  IN [a0 |-> F64 - b1, b1 |-> b1, m0 |-> F64, m1 |-> 0 - F64]

\* OnePoleIirCoeff::to_f32
one_pole_to_f32(c) ==
  [a0 |-> (c.a0 * F32) \div F64, b1 |-> (c.b1 * F32) \div F64,
   m0 |-> (c.m0 * F32) \div F64, m1 |-> (c.m1 * F32) \div F64]

\* ------------------------------------------------- filter design (f32)
\* `x as f32` of an f64 value.
as_f32(x) == (x * F32) \div F64

f32_g(cutoff_hz) == as_f32(g(cutoff_hz))

f32_q_norm(q) == (q * ((F32 * F32) \div as_f32(Q_BUTTERWORTH_ORD2))) \div F32

f32_scale_q_norm_for_order(qn, scale) ==
  IF qn > F32 THEN F32 + (((qn - F32) * scale) \div F32) ELSE qn

f32_from_g_and_k(gg, k, m0, m1, m2) ==
  LET a1 == (F32 * F32 * F32) \div ((F32 * F32) + gg * (gg + k))
      a2 == (gg * a1) \div F32
      a3 == (gg * a2) \div F32
  IN [a1 |-> a1, a2 |-> a2, a3 |-> a3, m0 |-> m0, m1 |-> m1, m2 |-> m2]

f32_recip(q) == (F32 * F32) \div q

f32_lowpass_ord4(cutoff_hz, q) ==
  LET qn == f32_scale_q_norm_for_order(f32_q_norm(q), as_f32(ORD4_Q_SCALE))
  IN [i \in 1 .. 2 |->
        f32_from_g_and_k(
          f32_g(cutoff_hz),
          f32_recip((qn * as_f32(Q_BUTTERWORTH_ORD4[i])) \div F32), 0, 0, F32)]

f32_lowpass_ord6(cutoff_hz, q) ==
  LET qn == f32_scale_q_norm_for_order(f32_q_norm(q), as_f32(ORD4_Q_SCALE))
  IN [i \in 1 .. 3 |->
        f32_from_g_and_k(
          f32_g(cutoff_hz),
          f32_recip((qn * as_f32(Q_BUTTERWORTH_ORD6[i])) \div F32), 0, 0, F32)]

f32_lowpass_ord8(cutoff_hz, q) ==
  LET qn == f32_scale_q_norm_for_order(f32_q_norm(q), as_f32(ORD8_Q_SCALE))
  IN [i \in 1 .. 4 |->
        f32_from_g_and_k(
          f32_g(cutoff_hz),
          f32_recip((qn * as_f32(Q_BUTTERWORTH_ORD8[i])) \div F32), 0, 0, F32)]

f32_highpass_ord4(cutoff_hz, q) ==
  LET qn == f32_scale_q_norm_for_order(f32_q_norm(q), as_f32(ORD4_Q_SCALE))
  IN [i \in 1 .. 2 |->
        LET k == f32_recip((qn * as_f32(Q_BUTTERWORTH_ORD4[i])) \div F32)
        IN f32_from_g_and_k(f32_g(cutoff_hz), k, F32, 0 - k, 0 - F32)]

f32_highpass_ord6(cutoff_hz, q) ==
  LET qn == f32_scale_q_norm_for_order(f32_q_norm(q), as_f32(ORD6_Q_SCALE))
  IN [i \in 1 .. 3 |->
        LET k == f32_recip((qn * as_f32(Q_BUTTERWORTH_ORD6[i])) \div F32)
        IN f32_from_g_and_k(f32_g(cutoff_hz), k, F32, 0 - k, 0 - F32)]

f32_highpass_ord8(cutoff_hz, q) ==
  LET qn == f32_scale_q_norm_for_order(f32_q_norm(q), as_f32(ORD8_Q_SCALE))
  IN [i \in 1 .. 4 |->
        LET k == f32_recip((qn * as_f32(Q_BUTTERWORTH_ORD8[i])) \div F32)
        IN f32_from_g_and_k(f32_g(cutoff_hz), k, F32, 0 - k, 0 - F32)]

\* ------------------------------------------------ coefficient engine
StateSyncInfoDefault ==
  [lp_band_enabled |-> FALSE, lp_band_order |-> "X1",
   hp_band_enabled |-> FALSE, hp_band_order |-> "X1",
   bands_enabled |-> [i \in BandIdx |-> FALSE]]

\* Option<StateSyncInfo>
NoneInfo == [is_some |-> FALSE, info |-> StateSyncInfoDefault]
SomeInfo(info) == [is_some |-> TRUE, info |-> info]

CoeffMultiOrderBandDefault ==
  [order |-> "X1", one_pole_iir_i |-> NoneIdx, svf_filter_i |-> NoneIdx]

CoeffSecondOrderBandDefault == [svf_filter_i |-> NoneIdx]

\* MeadowEqDspCoeff::new
CoeffNew ==
  [params |-> EqParamsDefault,
   lp_band |-> CoeffMultiOrderBandDefault,
   hp_band |-> CoeffMultiOrderBandDefault,
   bands |-> [i \in BandIdx |-> CoeffSecondOrderBandDefault],
   one_pole_coeffs |-> <<>>,
   svf_coeffs |-> <<>>,
   needs_param_flush |-> FALSE,
   num_filters_changed |-> FALSE,
   lp_band_needs_param_sync |-> FALSE,
   hp_band_needs_param_sync |-> FALSE,
   bands_needing_param_sync |-> [i \in BandIdx |-> FALSE]]

\* MeadowEqDspCoeff::params
CoeffParams(c) == c.params

\* set_params that asks for a flush and stores nothing.
set_params_dropping(c, p) == [c EXCEPT !.needs_param_flush = TRUE]

\* set_params that drops the coefficients at once instead of leaving them to
\* the flush.
set_params_clearing(c, p) ==
  [c EXCEPT !.params = p,
            !.needs_param_flush = TRUE,
            !.num_filters_changed = TRUE,
            !.lp_band_needs_param_sync = TRUE,
            !.hp_band_needs_param_sync = TRUE,
            !.bands_needing_param_sync = [i \in BandIdx |-> TRUE],
            !.one_pole_coeffs = <<>>,
            !.svf_coeffs = <<>>]

\* set_params without the diffing: it stores p and asks for a flush whatever
\* p is.
set_params_marking(c, p) ==
  [c EXCEPT !.params = p, !.needs_param_flush = TRUE]

\* set_params that stores p and marks nothing.
set_params_storing(c, p) == [c EXCEPT !.params = p]

\* MeadowEqDspCoeff::set_params
set_params(c, p) ==
  LET lp_diff == c.params.lp_band # p.lp_band
      hp_diff == c.params.hp_band # p.hp_band
      band_diff(i) == c.params.bands[i] # p.bands[i]
      lp_topo == lp_diff /\ (c.params.lp_band.enabled # p.lp_band.enabled
                             \/ c.params.lp_band.order # p.lp_band.order)
      hp_topo == hp_diff /\ (c.params.hp_band.enabled # p.hp_band.enabled
                             \/ c.params.hp_band.order # p.hp_band.order)
      band_topo(i) == band_diff(i)
                      /\ c.params.bands[i].enabled # p.bands[i].enabled
  IN [c EXCEPT
        !.params =
          [lp_band |-> IF lp_diff THEN p.lp_band ELSE c.params.lp_band,
           hp_band |-> IF hp_diff THEN p.hp_band ELSE c.params.hp_band,
           bands |-> [i \in BandIdx |->
                        IF band_diff(i) THEN p.bands[i] ELSE c.params.bands[i]]],
        !.num_filters_changed =
          @ \/ lp_topo \/ hp_topo \/ (\E i \in BandIdx : band_topo(i)),
        !.lp_band_needs_param_sync = @ \/ lp_diff,
        !.hp_band_needs_param_sync = @ \/ hp_diff,
        !.bands_needing_param_sync =
          [i \in BandIdx |-> @[i] \/ band_diff(i)],
        !.needs_param_flush =
          @ \/ lp_diff \/ hp_diff \/ (\E i \in BandIdx : band_diff(i))]

\* The `if let Some(i) = ..._i { arr[i + k] = coeffs[k] } else { ..._i =
\* Some(arr.len()); arr.push(coeffs[k]) }` block of sync_params, for the n
\* sections the match arm touches: coefs is the array the design function
\* returned and cap the capacity of the ArrayVec.  The writes happen in
\* order and stop at the first one that panics.
SyncSections(idx, arr, coefs, n, cap) ==
  IF idx # NoneIdx
    THEN LET w == Max(0, Min(Min(n, Len(coefs)), Len(arr) - idx))
         IN [idx |-> idx,
             arr |-> [x \in 1 .. Len(arr) |->
                        IF (x - idx) \in 1 .. w THEN coefs[x - idx] ELSE arr[x]],
             panic |-> IF w < n THEN "index_oob" ELSE "none"]
    ELSE LET w == Max(0, Min(Min(n, Len(coefs)), cap - Len(arr)))
         IN [idx |-> Len(arr),
             arr |-> arr \o SubSeq(coefs, 1, w),
             panic |-> IF w = n THEN "none"
                       ELSE IF w = Len(coefs) THEN "index_oob"
                       ELSE "capacity"]

\* The f64 design the match arm of MultiOrderBand::sync_params calls.
MultiOrderDesign(order, is_lowpass, cutoff_hz, q) ==
  CASE order = "X2" ->
         IF is_lowpass THEN <<lowpass_ord2(cutoff_hz, q)>>
                       ELSE <<highpass_ord2(cutoff_hz, q)>>
    [] order = "X4" ->
         IF is_lowpass THEN lowpass_ord4(cutoff_hz, q)
                       ELSE highpass_ord4(cutoff_hz, q)
    [] order = "X6" ->
         IF is_lowpass THEN lowpass_ord4(cutoff_hz, q)
                       ELSE highpass_ord4(cutoff_hz, q)
    [] order = "X8" ->
         IF is_lowpass THEN lowpass_ord4(cutoff_hz, q)
                       ELSE highpass_ord4(cutoff_hz, q)

\* The number of SVF sections the match arm writes.
SectionsWritten(order) ==
  CASE order = "X1" -> 0
    [] order = "X2" -> 1
    [] order = "X4" -> 2
    [] order = "X6" -> 3
    [] order = "X8" -> 4

\* MultiOrderBand::sync_params (coeff.rs)
CoeffMultiOrderBand_sync_params(band, params, is_lowpass, opc, svc) ==
  LET OnePoleDone(r) ==
        [band |-> [band EXCEPT !.order = params.order,
                               !.one_pole_iir_i = r.idx],
         one_pole_coeffs |-> r.arr, svf_coeffs |-> svc, panic |-> r.panic]
      SvfDone(r) ==
        [band |-> [band EXCEPT !.order = params.order,
                               !.svf_filter_i = r.idx],
         one_pole_coeffs |-> opc, svf_coeffs |-> r.arr, panic |-> r.panic]
      ToF32(d) == [k \in 1 .. Len(d) |-> svf_to_f32(d[k])]
  IN IF ~params.enabled
       THEN [band |-> [band EXCEPT !.one_pole_iir_i = NoneIdx,
                                   !.svf_filter_i = NoneIdx],
             one_pole_coeffs |-> opc, svf_coeffs |-> svc, panic |-> "none"]
     ELSE IF params.order = "X1"
       THEN OnePoleDone(SyncSections(
              band.one_pole_iir_i, opc,
              <<one_pole_to_f32(IF is_lowpass
                                  THEN one_pole_lowpass(params.cutoff_hz)
                                  ELSE one_pole_highpass(params.cutoff_hz))>>,
              1, MAX_ONE_POLE_FILTERS))
     ELSE SvfDone(SyncSections(
            band.svf_filter_i, svc,
            ToF32(MultiOrderDesign(params.order, is_lowpass,
                                   params.cutoff_hz, params.q)),
            SectionsWritten(params.order), NUM_BANDS_PLUS_8))

\* The f64 design SecondOrderBand::sync_params calls for the band type.
BandDesign(params) ==
  CASE params.band_type = "Bell" ->
         bell(params.cutoff_hz, params.q, params.gain_db)
    [] params.band_type = "LowShelf" ->
         low_shelf(params.cutoff_hz, params.q, params.gain_db)
    [] params.band_type = "HighShelf" ->
         high_shelf(params.cutoff_hz, params.q, params.gain_db)
    [] params.band_type = "Notch" -> notch(params.cutoff_hz, params.q)
    [] params.band_type = "Allpass" -> allpass(params.cutoff_hz, params.q)

\* SecondOrderBand::sync_params (coeff.rs)
CoeffSecondOrderBand_sync_params(band, params, svc) ==
  LET Done(r) == [band |-> [band EXCEPT !.svf_filter_i = r.idx],
                  svf_coeffs |-> r.arr, panic |-> r.panic]
  IN IF ~params.enabled
       THEN [band |-> [band EXCEPT !.svf_filter_i = NoneIdx],
             svf_coeffs |-> svc, panic |-> "none"]
       ELSE Done(SyncSections(band.svf_filter_i, svc,
                              <<svf_to_f32(BandDesign(params))>>, 1,
                              NUM_BANDS_PLUS_8))

\* FlushClear without the clear() of one_pole_coeffs.
FlushClearSvfOnly(c) ==
  IF c.num_filters_changed
    THEN [c EXCEPT !.num_filters_changed = FALSE, !.svf_coeffs = <<>>]
    ELSE c

\* FlushClear without the two clear() calls.
FlushClearKeepsArrays(c) ==
  IF c.num_filters_changed THEN [c EXCEPT !.num_filters_changed = FALSE] ELSE c

\* flush_param_changes, lines 109-113: a topology change clears both arrays.
FlushClear(c) ==
  IF c.num_filters_changed
    THEN [c EXCEPT !.num_filters_changed = FALSE,
                   !.one_pole_coeffs = <<>>, !.svf_coeffs = <<>>]
    ELSE c

\* flush_param_changes, lines 115-125 (lp) and 127-137 (hp).
FlushStage(c, is_lowpass) ==
  LET dirty == IF is_lowpass THEN c.lp_band_needs_param_sync
                             ELSE c.hp_band_needs_param_sync
      Done(r) ==
        [coeff |->
           IF is_lowpass
             THEN [c EXCEPT !.lp_band_needs_param_sync = FALSE,
                            !.lp_band = r.band,
                            !.one_pole_coeffs = r.one_pole_coeffs,
                            !.svf_coeffs = r.svf_coeffs]
             ELSE [c EXCEPT !.hp_band_needs_param_sync = FALSE,
                            !.hp_band = r.band,
                            !.one_pole_coeffs = r.one_pole_coeffs,
                            !.svf_coeffs = r.svf_coeffs],
         panic |-> r.panic]
  IN IF ~dirty THEN [coeff |-> c, panic |-> "none"]
     ELSE Done(CoeffMultiOrderBand_sync_params(
                 IF is_lowpass THEN c.lp_band ELSE c.hp_band,
                 IF is_lowpass THEN c.params.lp_band ELSE c.params.hp_band,
                 is_lowpass, c.one_pole_coeffs, c.svf_coeffs))

\* flush_param_changes, lines 139-149: the loop over the bands from band_i.
RECURSIVE FlushBands(_, _)
FlushBands(c, band_i) ==
  LET Stored(r) == [c EXCEPT !.bands_needing_param_sync[band_i] = FALSE,
                             !.bands[band_i] = r.band,
                             !.svf_coeffs = r.svf_coeffs]
      Done(r) == IF r.panic # "none"
                   THEN [coeff |-> Stored(r), panic |-> r.panic]
                   ELSE FlushBands(Stored(r), band_i + 1)
  IN IF band_i >= NumBands THEN [coeff |-> c, panic |-> "none"]
     ELSE IF ~c.bands_needing_param_sync[band_i]
       THEN FlushBands(c, band_i + 1)
     ELSE Done(CoeffSecondOrderBand_sync_params(
                 c.bands[band_i], c.params.bands[band_i], c.svf_coeffs))

\* flush_param_changes, lines 151-161: the value returned, decided by the
\* flag as it stands at the end of the call.
FlushReturn(c) ==
  IF c.num_filters_changed
    THEN SomeInfo([lp_band_enabled |-> c.params.lp_band.enabled,
                   lp_band_order |-> c.params.lp_band.order,
                   hp_band_enabled |-> c.params.hp_band.enabled,
                   hp_band_order |-> c.params.hp_band.order,
                   bands_enabled |->
                     [i \in BandIdx |-> c.params.bands[i].enabled]])
    ELSE NoneInfo

\* flush_param_changes without the needs_param_flush test: every call
\* clears the arrays and recomputes every stage and band.
flush_param_changes_always(c) ==
  LET Hp(r) == IF r.panic # "none" THEN r ELSE FlushStage(r.coeff, FALSE)
      Bands(r) == IF r.panic # "none" THEN r ELSE FlushBands(r.coeff, 0)
      Return(r) == [coeff |-> r.coeff,
                    ret |-> IF r.panic # "none" THEN NoneInfo
                            ELSE FlushReturn(r.coeff),
                    panic |-> r.panic]
  IN Return(Bands(Hp(FlushStage(
       FlushClear([c EXCEPT !.needs_param_flush = FALSE,
                            !.num_filters_changed = TRUE,
                            !.lp_band_needs_param_sync = TRUE,
                            !.hp_band_needs_param_sync = TRUE,
                            !.bands_needing_param_sync =
                              [i \in BandIdx |-> TRUE]]), TRUE))))

\* MeadowEqDspCoeff::flush_param_changes
flush_param_changes(c) ==
  LET Hp(r) == IF r.panic # "none" THEN r ELSE FlushStage(r.coeff, FALSE)
      Bands(r) == IF r.panic # "none" THEN r ELSE FlushBands(r.coeff, 0)
      Return(r) == [coeff |-> r.coeff,
                    ret |-> IF r.panic # "none" THEN NoneInfo
                            ELSE FlushReturn(r.coeff),
                    panic |-> r.panic]
  IN IF ~c.needs_param_flush
       THEN [coeff |-> c, ret |-> NoneInfo, panic |-> "none"]
       ELSE Return(Bands(Hp(FlushStage(
              FlushClear([c EXCEPT !.needs_param_flush = FALSE]), TRUE))))

\* ------------------------------------------------------- filter kernels
OnePoleIirStateDefault == [z1 |-> 0]
SvfStateDefault == [ic1eq |-> 0, ic2eq |-> 0]

\* The f32 values that are not finite: the two infinities and NaN, kept
\* apart from every finite value of the model.
INFINITY == 1000000000
NEG_INFINITY == 0 - INFINITY
NAN == INFINITY + 1

IsInf(x) == x = INFINITY \/ x = NEG_INFINITY

\* f32 product of two f32 values: NaN times anything and zero times an
\* infinity are NaN.
Mul(a, b) ==
  IF a = NAN \/ b = NAN THEN NAN
  ELSE IF IsInf(a) \/ IsInf(b)
    THEN IF a = 0 \/ b = 0 THEN NAN
         ELSE IF (a > 0) = (b > 0) THEN INFINITY ELSE NEG_INFINITY
  ELSE (a * b) \div F32

\* f32 sum of two f32 values: the sum of opposite infinities is NaN.
Add(a, b) ==
  IF a = NAN \/ b = NAN THEN NAN
  ELSE IF IsInf(a) THEN (IF IsInf(b) /\ b # a THEN NAN ELSE a)
  ELSE IF IsInf(b) THEN b
  ELSE a + b

\* f32 difference of two f32 values.
Sub(a, b) == Add(a, IF b = NAN THEN NAN ELSE 0 - b)

\* SvfCoeff::NO_OP and OnePoleIirCoeff::NO_OP
SvfCoeff_NO_OP == [a1 |-> 0, a2 |-> 0, a3 |-> 0, m0 |-> F32, m1 |-> 0, m2 |-> 0]
OnePoleIirCoeff_NO_OP == [a0 |-> 0, b1 |-> 0, m0 |-> F32, m1 |-> 0]

\* OnePoleIirState::tick (f32)
OnePoleIirState_tick(state, input, coeff) ==
  LET Out(z1) == [state |-> [z1 |-> z1],
                  out |-> Add(Mul(coeff.m0, input), Mul(coeff.m1, z1))]
  IN Out(Add(Mul(coeff.a0, input), Mul(coeff.b1, state.z1)))

\* SvfState::tick with the dry term taken from v3 = input - ic2eq instead of
\* the input.
SvfState_tick_dry_v3(state, input, coeff) ==
  LET Out(v3, v1, v2) ==
        [state |-> [ic1eq |-> Sub(Mul(2 * F32, v1), state.ic1eq),
                    ic2eq |-> Sub(Mul(2 * F32, v2), state.ic2eq)],
         out |-> Add(Add(Mul(coeff.m0, v3), Mul(coeff.m1, v1)),
                     Mul(coeff.m2, v2))]
      V(v3) ==
        Out(v3, Add(Mul(coeff.a1, state.ic1eq), Mul(coeff.a2, v3)),
            Add(Add(state.ic2eq, Mul(coeff.a2, state.ic1eq)),
                Mul(coeff.a3, v3)))
  IN V(Sub(input, state.ic2eq))

\* SvfState::tick (f32)
SvfState_tick(state, input, coeff) ==
  LET Out(v1, v2) ==
        [state |-> [ic1eq |-> Sub(Mul(2 * F32, v1), state.ic1eq),
                    ic2eq |-> Sub(Mul(2 * F32, v2), state.ic2eq)],
         out |-> Add(Add(Mul(coeff.m0, input), Mul(coeff.m1, v1)),
                     Mul(coeff.m2, v2))]
      V(v3) ==
        Out(Add(Mul(coeff.a1, state.ic1eq), Mul(coeff.a2, v3)),
            Add(Add(state.ic2eq, Mul(coeff.a2, state.ic1eq)),
                Mul(coeff.a3, v3)))
  IN V(Sub(input, state.ic2eq))

\* ------------------------------------------------------------ state engine
StateMultiOrderBandDefault ==
  [enabled |-> FALSE, order |-> "X1",
   one_pole_iir_state |-> OnePoleIirStateDefault,
   svf_states |-> [k \in 1 .. 4 |-> SvfStateDefault]]

StateSecondOrderBandDefault == [enabled |-> FALSE, svf_state |-> SvfStateDefault]

\* MeadowEqDspState::new
StateNew ==
  [lp_band |-> StateMultiOrderBandDefault,
   hp_band |-> StateMultiOrderBandDefault,
   bands |-> [i \in BandIdx |-> StateSecondOrderBandDefault],
   one_pole_states |-> <<>>,
   svf_states |-> <<>>]

\* MultiOrderBand::reset (state.rs)
StateMultiOrderBand_reset(band) ==
  [band EXCEPT !.one_pole_iir_state = OnePoleIirStateDefault,
               !.svf_states = [k \in 1 .. 4 |-> SvfStateDefault]]

\* The number of SVF memories a stage of the order occupies.
SvfSections(order) ==
  CASE order = "X1" -> 0
    [] order = "X2" -> 1
    [] order = "X4" -> 2
    [] order = "X6" -> 3
    [] order = "X8" -> 4

\* MultiOrderBand::sync_states: copy the stage's memory out of the dense
\* arrays, from the running indices on; a read past the end panics.
sync_states(band, one_pole_states, svf_states, one_pole_iir_i, svf_i) ==
  IF band.order = "X1"
    THEN IF one_pole_iir_i < Len(one_pole_states)
           THEN [band |-> [band EXCEPT !.one_pole_iir_state =
                                          one_pole_states[one_pole_iir_i + 1]],
                 one_pole_iir_i |-> one_pole_iir_i + 1, svf_i |-> svf_i,
                 panic |-> "none"]
           ELSE [band |-> band, one_pole_iir_i |-> one_pole_iir_i,
                 svf_i |-> svf_i, panic |-> "index_oob"]
    ELSE LET n == SvfSections(band.order)
             r == Max(0, Min(n, Len(svf_states) - svf_i))
         IN [band |-> [band EXCEPT !.svf_states =
                         [k \in 1 .. 4 |->
                            IF k <= r THEN svf_states[svf_i + k] ELSE @[k]]],
             one_pole_iir_i |-> one_pole_iir_i,
             svf_i |-> IF r = n THEN svf_i + n ELSE svf_i,
             panic |-> IF r = n THEN "none" ELSE "index_oob"]

\* MultiOrderBand::add_states: push the stage's memory onto the dense
\* arrays; a push onto a full ArrayVec panics.
add_states(band, one_pole_states, svf_states) ==
  IF band.order = "X1"
    THEN IF Len(one_pole_states) < MAX_ONE_POLE_FILTERS
           THEN [one_pole_states |->
                   Append(one_pole_states, band.one_pole_iir_state),
                 svf_states |-> svf_states, panic |-> "none"]
           ELSE [one_pole_states |-> one_pole_states,
                 svf_states |-> svf_states, panic |-> "capacity"]
    ELSE LET n == SvfSections(band.order)
             w == Max(0, Min(n, NUM_BANDS_PLUS_8 - Len(svf_states)))
         IN [one_pole_states |-> one_pole_states,
             svf_states |-> svf_states \o SubSeq(band.svf_states, 1, w),
             panic |-> IF w = n THEN "none" ELSE "capacity"]

\* sync, lines 41-52 (lp) and 54-65 (hp): save or reset the stage's memory,
\* then take the stage's shape from the descriptor.
SyncStage(s, is_lowpass, info, one_pole_iir_i, svf_i) ==
  LET Shaped(band) ==
        IF is_lowpass
          THEN [s EXCEPT !.lp_band = [band EXCEPT
                                        !.enabled = info.lp_band_enabled,
                                        !.order = info.lp_band_order]]
          ELSE [s EXCEPT !.hp_band = [band EXCEPT
                                        !.enabled = info.hp_band_enabled,
                                        !.order = info.hp_band_order]]
      Saved(r) ==
        [state |-> IF r.panic = "none" THEN Shaped(r.band)
                   ELSE IF is_lowpass THEN [s EXCEPT !.lp_band = r.band]
                   ELSE [s EXCEPT !.hp_band = r.band],
         one_pole_iir_i |-> r.one_pole_iir_i, svf_i |-> r.svf_i,
         panic |-> r.panic]
      Stage(band) ==
        IF band.enabled
          THEN Saved(sync_states(band, s.one_pole_states, s.svf_states,
                                 one_pole_iir_i, svf_i))
          ELSE [state |-> Shaped(StateMultiOrderBand_reset(band)),
                one_pole_iir_i |-> one_pole_iir_i, svf_i |-> svf_i,
                panic |-> "none"]
  IN Stage(IF is_lowpass THEN s.lp_band ELSE s.hp_band)

\* sync, lines 67-76: save or reset the memory of the bands from band i on.
RECURSIVE SyncSaveBands(_, _, _, _)
SyncSaveBands(s, info, i, svf_i) ==
  IF i >= NumBands THEN [state |-> s, svf_i |-> svf_i, panic |-> "none"]
  ELSE IF s.bands[i].enabled
    THEN IF svf_i < Len(s.svf_states)
           THEN SyncSaveBands(
                  [s EXCEPT !.bands[i] =
                     [enabled |-> info.bands_enabled[i],
                      svf_state |-> s.svf_states[svf_i + 1]]],
                  info, i + 1, svf_i + 1)
           ELSE [state |-> s, svf_i |-> svf_i, panic |-> "index_oob"]
    ELSE SyncSaveBands(
           [s EXCEPT !.bands[i] = [enabled |-> info.bands_enabled[i],
                                   svf_state |-> SvfStateDefault]],
           info, i + 1, svf_i)

\* sync, lines 78-86: the enabled stage appends its memory.
SyncAddStage(s, is_lowpass) ==
  LET Added(r) == [state |-> [s EXCEPT !.one_pole_states = r.one_pole_states,
                                       !.svf_states = r.svf_states],
                   panic |-> r.panic]
      Stage(band) ==
        IF ~band.enabled THEN [state |-> s, panic |-> "none"]
        ELSE Added(add_states(band, s.one_pole_states, s.svf_states))
  IN Stage(IF is_lowpass THEN s.lp_band ELSE s.hp_band)

\* sync, lines 88-93: every enabled band stores its memory at
\* svf_states[i], i being the number of the band.
RECURSIVE SyncStoreBands(_, _)
SyncStoreBands(s, i) ==
  IF i >= NumBands THEN [state |-> s, panic |-> "none"]
  ELSE IF ~s.bands[i].enabled THEN SyncStoreBands(s, i + 1)
  ELSE IF i < Len(s.svf_states)
    THEN SyncStoreBands(
           [s EXCEPT !.svf_states[i + 1] = s.bands[i].svf_state], i + 1)
    ELSE [state |-> s, panic |-> "index_oob"]

\* MeadowEqDspState::sync; a step that panics ends the call.
sync(s, info) ==
  LET Lp(x) == SyncStage(x, TRUE, info, 0, 0)
      Hp(r) == IF r.panic # "none" THEN r
               ELSE SyncStage(r.state, FALSE, info, r.one_pole_iir_i, r.svf_i)
      Save(r) == IF r.panic # "none" THEN r
                 ELSE SyncSaveBands(r.state, info, 0, r.svf_i)
      AddLp(r) == IF r.panic # "none" THEN r ELSE SyncAddStage(r.state, TRUE)
      AddHp(r) == IF r.panic # "none" THEN r ELSE SyncAddStage(r.state, FALSE)
      Store(r) == IF r.panic # "none" THEN r ELSE SyncStoreBands(r.state, 0)
      r6 == Store(AddHp(AddLp(Save(Hp(Lp(s))))))
  IN [state |-> r6.state, panic |-> r6.panic]

\* ------------------------------------------------- stereo-linked processor
\* MeadowEqDspStereoLinked::params
StereoParams(c) == CoeffParams(c)

\* MeadowEqDspStereoLinked::flush_param_changes
StereoFlush(c, l, r) ==
  LET Right(f, sl, sr) ==
        [coeff |-> f.coeff, left |-> sl.state, right |-> sr.state,
         ret |-> f.ret, panic |-> sr.panic]
      Left(f, sl) ==
        IF sl.panic # "none"
          THEN [coeff |-> f.coeff, left |-> sl.state, right |-> r,
                ret |-> f.ret, panic |-> sl.panic]
          ELSE Right(f, sl, sync(r, f.ret.info))
      Flushed(f) ==
        IF f.panic # "none" \/ ~f.ret.is_some
          THEN [coeff |-> f.coeff, left |-> l, right |-> r, ret |-> f.ret,
                panic |-> f.panic]
          ELSE Left(f, sync(l, f.ret.info))
  IN Flushed(flush_param_changes(c))

\* One sample through sections k .. n of one channel.
RECURSIVE TickChain(_, _, _, _, _, _)
TickChain(kind, states, x, coeffs, k, n) ==
  LET Ticked(t) == TickChain(kind, [states EXCEPT ![k] = t.state], t.out,
                             coeffs, k + 1, n)
  IN IF k > n THEN [states |-> states, out |-> x]
     ELSE Ticked(IF kind = "one_pole"
                   THEN OnePoleIirState_tick(states[k], x, coeffs[k])
                   ELSE SvfState_tick(states[k], x, coeffs[k]))

\* The per-sample loop of process over samples j .. m of one channel.
RECURSIVE TickBuffer(_, _, _, _, _, _, _)
TickBuffer(kind, states, buf, coeffs, n, j, m) ==
  LET Ticked(t) == TickBuffer(kind, t.states, [buf EXCEPT ![j] = t.out],
                              coeffs, n, j + 1, m)
  IN IF j > m THEN [states |-> states, buf |-> buf]
     ELSE Ticked(TickChain(kind, states, buf[j], coeffs, 1, n))

\* ProcessKind with each channel's states ticked on the other channel's
\* samples.
ProcessKindCrossed(kind, coeffs, l_states, r_states, buf_l, buf_r) ==
  LET n == IF kind = "one_pole" THEN (IF Len(coeffs) = 1 THEN 1 ELSE 2)
           ELSE Len(coeffs)
      m == Min(Len(buf_l), Len(buf_r))
      Ticked(tl, tr) ==
        [l_states |-> tl.states, r_states |-> tr.states,
         buf_l |-> tl.buf, buf_r |-> tr.buf,
         ticked |-> IF m = 0 THEN <<>> ELSE [k \in 1 .. n |-> kind],
         panic |-> "none"]
  IN IF coeffs = <<>>
       THEN [l_states |-> l_states, r_states |-> r_states,
             buf_l |-> buf_l, buf_r |-> buf_r, ticked |-> <<>>,
             panic |-> "none"]
     ELSE IF Len(coeffs) # Len(l_states) \/ Len(coeffs) # Len(r_states)
       THEN [l_states |-> l_states, r_states |-> r_states,
             buf_l |-> buf_l, buf_r |-> buf_r, ticked |-> <<>>,
             panic |-> "assert_eq"]
     ELSE Ticked(TickBuffer(kind, l_states, buf_r, coeffs, n, 1, m),
                 TickBuffer(kind, r_states, buf_l, coeffs, n, 1, m))

\* process, lines 59-84 (one-pole sections) and 86-103 (SVF sections): the
\* length asserts, then the loop over the zipped buffers.
ProcessKind(kind, coeffs, l_states, r_states, buf_l, buf_r) ==
  LET n == IF kind = "one_pole" THEN (IF Len(coeffs) = 1 THEN 1 ELSE 2)
           ELSE Len(coeffs)
      m == Min(Len(buf_l), Len(buf_r))
      Ticked(tl, tr) ==
        [l_states |-> tl.states, r_states |-> tr.states,
         buf_l |-> tl.buf, buf_r |-> tr.buf,
         ticked |-> IF m = 0 THEN <<>> ELSE [k \in 1 .. n |-> kind],
         panic |-> "none"]
  IN IF coeffs = <<>>
       THEN [l_states |-> l_states, r_states |-> r_states,
             buf_l |-> buf_l, buf_r |-> buf_r, ticked |-> <<>>,
             panic |-> "none"]
     ELSE IF Len(coeffs) # Len(l_states) \/ Len(coeffs) # Len(r_states)
       THEN [l_states |-> l_states, r_states |-> r_states,
             buf_l |-> buf_l, buf_r |-> buf_r, ticked |-> <<>>,
             panic |-> "assert_eq"]
     ELSE Ticked(TickBuffer(kind, l_states, buf_l, coeffs, n, 1, m),
                 TickBuffer(kind, r_states, buf_r, coeffs, n, 1, m))

\* MeadowEqDspStereoLinked::process
process(c, l, r, bl, br) ==
  LET Svf(f, p1, p2) ==
        [coeff |-> f.coeff,
         left |-> [f.left EXCEPT !.one_pole_states = p1.l_states,
                                 !.svf_states = p2.l_states],
         right |-> [f.right EXCEPT !.one_pole_states = p1.r_states,
                                   !.svf_states = p2.r_states],
         buf_l |-> IF p2.panic # "none" THEN p1.buf_l ELSE p2.buf_l,
         buf_r |-> IF p2.panic # "none" THEN p1.buf_r ELSE p2.buf_r,
         ticked |-> p1.ticked \o p2.ticked,
         panic |-> p2.panic]
      OnePole(f, p1) ==
        IF p1.panic # "none"
          THEN [coeff |-> f.coeff, left |-> f.left, right |-> f.right,
                buf_l |-> bl, buf_r |-> br, ticked |-> <<>>,
                panic |-> p1.panic]
          ELSE Svf(f, p1,
                   ProcessKind("svf", f.coeff.svf_coeffs, f.left.svf_states,
                               f.right.svf_states, p1.buf_l, p1.buf_r))
      Flushed(f) ==
        IF f.panic # "none"
          THEN [coeff |-> f.coeff, left |-> f.left, right |-> f.right,
                buf_l |-> bl, buf_r |-> br, ticked |-> <<>>,
                panic |-> f.panic]
          ELSE OnePole(f,
                 ProcessKind("one_pole", f.coeff.one_pole_coeffs,
                             f.left.one_pole_states,
                             f.right.one_pole_states, bl, br))
  IN Flushed(IF c.needs_param_flush THEN StereoFlush(c, l, r)
             ELSE [coeff |-> c, left |-> l, right |-> r, ret |-> NoneInfo,
                   panic |-> "none"])

\* ------------------- the state-embedded (mono) variant, "mono copy.rs"
PackedOnePoleIIRDefault ==
  [coeff |-> [a0 |-> 0, b1 |-> 0, m0 |-> 0, m1 |-> 0],
   state |-> OnePoleIirStateDefault]

PackedSvfDefault ==
  [coeff |-> [a1 |-> 0, a2 |-> 0, a3 |-> 0, m0 |-> 0, m1 |-> 0, m2 |-> 0],
   state |-> SvfStateDefault]

MonoMultiOrderBandDefault ==
  [enabled |-> FALSE, needs_param_sync |-> FALSE, order |-> "X1",
   packed_one_pole_iir |-> PackedOnePoleIIRDefault,
   packed_svfs |-> [k \in 1 .. 4 |-> PackedSvfDefault]]

MonoSecondOrderBandDefault ==
  [enabled |-> FALSE, needs_param_sync |-> FALSE,
   packed_svf |-> PackedSvfDefault]

\* MeadowEqDsp::new (mono)
MonoNew ==
  [params |-> EqParamsDefault,
   lp_band |-> MonoMultiOrderBandDefault,
   hp_band |-> MonoMultiOrderBandDefault,
   bands |-> [i \in BandIdx |-> MonoSecondOrderBandDefault],
   packed_one_pole_filters |-> <<>>,
   packed_svf_filters |-> <<>>,
   needs_param_flush |-> FALSE,
   lp_band_needs_recalc |-> FALSE,
   hp_band_needs_recalc |-> FALSE,
   bands_needing_recalc |-> [i \in BandIdx |-> FALSE]]

\* MeadowEqDsp::set_params (mono)
mono_set_params(m, p) ==
  [m EXCEPT
     !.params =
       [lp_band |-> IF m.params.lp_band # p.lp_band THEN p.lp_band
                    ELSE m.params.lp_band,
        hp_band |-> IF m.params.hp_band # p.hp_band THEN p.hp_band
                    ELSE m.params.hp_band,
        bands |-> [i \in BandIdx |->
                     IF m.params.bands[i] # p.bands[i] THEN p.bands[i]
                     ELSE m.params.bands[i]]],
     !.lp_band_needs_recalc = @ \/ m.params.lp_band # p.lp_band,
     !.hp_band_needs_recalc = @ \/ m.params.hp_band # p.hp_band,
     !.bands_needing_recalc =
       [i \in BandIdx |-> @[i] \/ m.params.bands[i] # p.bands[i]],
     !.needs_param_flush = @ \/ m.params # p]

\* The memory resets of a match arm when the order changed: the one-pole
\* memory (not for order 1) and the SVF memories past the arm's n sections.
MonoResetUnused(band, order, n) ==
  [band EXCEPT
     !.packed_one_pole_iir.state =
       IF order = "X1" THEN @ ELSE OnePoleIirStateDefault,
     !.packed_svfs =
       [k \in 1 .. 4 |-> IF k > n THEN [@[k] EXCEPT !.state = SvfStateDefault]
                         ELSE @[k]]]

\* SecondOrderBand::sync_params (mono)
MonoSecondOrderBand_sync_params(band, params) ==
  IF ~params.enabled
    THEN [band EXCEPT !.needs_param_sync = FALSE, !.enabled = FALSE,
                      !.packed_svf = [coeff |-> SvfCoeff_NO_OP,
                                      state |-> SvfStateDefault]]
    ELSE [band EXCEPT !.needs_param_sync = FALSE, !.enabled = TRUE,
                      !.packed_svf.coeff = svf_to_f32(BandDesign(params))]

\* SecondOrderBand::sync_params_from (mono)
MonoSecondOrderBand_sync_params_from(band, other) ==
  IF other.enabled
    THEN [band EXCEPT !.enabled = TRUE, !.needs_param_sync = FALSE,
                      !.packed_svf.coeff = other.packed_svf.coeff]
    ELSE [band EXCEPT !.enabled = FALSE, !.needs_param_sync = FALSE,
                      !.packed_svf.state = SvfStateDefault]

\* MultiOrderBand::sync_params (mono): the arm writes the coefficients of
\* its sections in order and panics at the first one the design function
\* did not return.
MonoMultiOrderBand_sync_params(band, params, is_lowpass) ==
  LET n == SectionsWritten(params.order)
      Written(b, d) ==
        [b EXCEPT !.packed_svfs =
           [k \in 1 .. 4 |->
              IF k <= Min(n, Len(d))
                THEN [@[k] EXCEPT !.coeff = svf_to_f32(d[k])] ELSE @[k]]]
      Arm(b, order_changed, d) ==
        IF Len(d) < n
          THEN [band |-> Written(b, d), panic |-> "index_oob"]
        ELSE [band |-> IF order_changed
                         THEN MonoResetUnused(Written(b, d), params.order, n)
                         ELSE Written(b, d),
              panic |-> "none"]
      Enabled(b, order_changed) ==
        IF params.order = "X1"
          THEN [band |->
                  IF order_changed
                    THEN MonoResetUnused(
                           [b EXCEPT !.packed_one_pole_iir.coeff =
                              one_pole_to_f32(
                                IF is_lowpass
                                  THEN one_pole_lowpass(params.cutoff_hz)
                                  ELSE one_pole_highpass(params.cutoff_hz))],
                           "X1", 0)
                    ELSE [b EXCEPT !.packed_one_pole_iir.coeff =
                            one_pole_to_f32(
                              IF is_lowpass
                                THEN one_pole_lowpass(params.cutoff_hz)
                                ELSE one_pole_highpass(params.cutoff_hz))],
                panic |-> "none"]
          ELSE Arm(b, order_changed,
                   MultiOrderDesign(params.order, is_lowpass,
                                    params.cutoff_hz, params.q))
  IN IF ~params.enabled
       THEN [band |-> [band EXCEPT
                         !.needs_param_sync = FALSE,
                         !.enabled = FALSE,
                         !.packed_one_pole_iir = PackedOnePoleIIRDefault,
                         !.packed_svfs = [k \in 1 .. 4 |-> PackedSvfDefault]],
             panic |-> "none"]
       ELSE Enabled([band EXCEPT !.needs_param_sync = FALSE,
                                 !.enabled = TRUE,
                                 !.order = params.order],
                    band.order # params.order)

\* MultiOrderBand::sync_params_from (mono)
MonoMultiOrderBand_sync_params_from(band, other) ==
  LET n == SvfSections(other.order)
      Copied(b) ==
        IF other.order = "X1"
          THEN [b EXCEPT !.packed_one_pole_iir.coeff =
                           other.packed_one_pole_iir.coeff]
          ELSE [b EXCEPT !.packed_svfs =
                  [k \in 1 .. 4 |->
                     IF k <= n
                       THEN [@[k] EXCEPT !.coeff = other.packed_svfs[k].coeff]
                       ELSE @[k]]]
      Enabled(b, order_changed) ==
        IF order_changed THEN MonoResetUnused(Copied(b), other.order, n)
        ELSE Copied(b)
  IN IF other.enabled
       THEN Enabled([band EXCEPT !.enabled = TRUE,
                                 !.needs_param_sync = FALSE,
                                 !.order = other.order],
                    band.order # other.order)
       ELSE [band EXCEPT !.enabled = FALSE,
                         !.needs_param_sync = FALSE,
                         !.order = other.order,
                         !.packed_one_pole_iir = other.packed_one_pole_iir,
                         !.packed_svfs = other.packed_svfs]

\* MultiOrderBand::add_filter_states (mono)
MonoAddFilterStates(band, pop, psv) ==
  IF band.order = "X1"
    THEN [pop |-> Append(pop, band.packed_one_pole_iir), psv |-> psv]
    ELSE [pop |-> pop,
          psv |-> psv \o SubSeq(band.packed_svfs, 1, SvfSections(band.order))]

\* MultiOrderBand::sync_filter_states (mono): the memories of the stage's
\* sections are read back from the packed arrays at the running indices; a
\* read past the end panics.
MonoSyncFilterStates(band, opi, svi, pop, psv) ==
  LET n == SvfSections(band.order)
      w == Max(0, Min(n, Len(psv) - svi))
  IN IF band.order = "X1"
       THEN IF opi < Len(pop)
              THEN [band |-> [band EXCEPT !.packed_one_pole_iir.state =
                                            pop[opi + 1].state],
                    opi |-> opi + 1, svi |-> svi, panic |-> "none"]
              ELSE [band |-> band, opi |-> opi, svi |-> svi,
                    panic |-> "index_oob"]
       ELSE [band |-> [band EXCEPT !.packed_svfs =
                         [k \in 1 .. 4 |->
                            IF k <= w
                              THEN [@[k] EXCEPT !.state = psv[svi + k].state]
                              ELSE @[k]]],
             opi |-> opi,
             svi |-> IF w = n THEN svi + n ELSE svi,
             panic |-> IF w = n THEN "none" ELSE "index_oob"]

\* Step 1 of flush_param_changes (mono) for the bands from i on: the
\* memory of each enabled band is read back from the packed SVF array.
RECURSIVE MonoSyncBandStates(_, _, _, _)
MonoSyncBandStates(bands, svi, psv, i) ==
  IF i >= NumBands THEN [bands |-> bands, panic |-> "none"]
  ELSE IF ~bands[i].enabled THEN MonoSyncBandStates(bands, svi, psv, i + 1)
  ELSE IF svi >= Len(psv) THEN [bands |-> bands, panic |-> "index_oob"]
  ELSE MonoSyncBandStates(
         [bands EXCEPT ![i].packed_svf.state = psv[svi + 1].state],
         svi + 1, psv, i + 1)

\* Step 1 of flush_param_changes (mono): the running memories go from the
\* packed arrays back into the enabled stages and bands.
MonoStatesReadBack(m) ==
  LET pop == m.packed_one_pole_filters
      psv == m.packed_svf_filters
      Bands(l, h, b) ==
        [m |-> [m EXCEPT !.lp_band = l.band, !.hp_band = h.band,
                         !.bands = b.bands],
         panic |-> b.panic]
      Hp(l, h) ==
        IF h.panic # "none"
          THEN [m |-> [m EXCEPT !.lp_band = l.band, !.hp_band = h.band],
                panic |-> h.panic]
          ELSE Bands(l, h, MonoSyncBandStates(m.bands, h.svi, psv, 0))
      Lp(l) ==
        IF l.panic # "none"
          THEN [m |-> [m EXCEPT !.lp_band = l.band], panic |-> l.panic]
        ELSE IF m.hp_band.enabled
          THEN Hp(l, MonoSyncFilterStates(m.hp_band, l.opi, l.svi, pop, psv))
          ELSE Hp(l, [band |-> m.hp_band, opi |-> l.opi, svi |-> l.svi,
                      panic |-> "none"])
  IN IF m.lp_band.enabled
       THEN Lp(MonoSyncFilterStates(m.lp_band, 0, 0, pop, psv))
       ELSE Lp([band |-> m.lp_band, opi |-> 0, svi |-> 0, panic |-> "none"])

\* Step 3 of flush_param_changes (mono): both packed arrays are cleared and
\* rebuilt from the enabled stages and bands.
MonoRepacked(m) ==
  LET e == [pop |-> <<>>, psv |-> <<>>]
      l == IF m.lp_band.enabled THEN MonoAddFilterStates(m.lp_band, e.pop, e.psv)
           ELSE e
      h == IF m.hp_band.enabled THEN MonoAddFilterStates(m.hp_band, l.pop, l.psv)
           ELSE l
      enabled == {i \in BandIdx : m.bands[i].enabled}
      Rank(i) == Cardinality({j \in enabled : j <= i})
  IN [m EXCEPT
        !.packed_one_pole_filters = h.pop,
        !.packed_svf_filters =
          h.psv \o [k \in 1 .. Cardinality(enabled) |->
                      m.bands[CHOOSE i \in enabled : Rank(i) = k].packed_svf]]

\* Step 2 of flush_param_changes (mono): the stages and bands marked for
\* recalculation are recomputed; the high-pass branch calls sync_params on
\* lp_band with the low-pass parameters and is_lowpass = false.
MonoRecalc(m) ==
  LET Bands(x) ==
        [x EXCEPT
           !.bands_needing_recalc = [i \in BandIdx |-> FALSE],
           !.bands =
             [i \in BandIdx |->
                IF x.bands_needing_recalc[i]
                  THEN MonoSecondOrderBand_sync_params(@[i], x.params.bands[i])
                  ELSE @[i]]]
      Hp(x, r) ==
        IF r.panic # "none"
          THEN [m |-> [x EXCEPT !.hp_band_needs_recalc = FALSE,
                                !.lp_band = r.band],
                panic |-> r.panic]
          ELSE [m |-> Bands([x EXCEPT !.hp_band_needs_recalc = FALSE,
                                      !.lp_band = r.band]),
                panic |-> "none"]
      AfterLp(x) ==
        IF x.hp_band_needs_recalc
          THEN Hp(x, MonoMultiOrderBand_sync_params(x.lp_band, x.params.lp_band,
                                                    FALSE))
          ELSE [m |-> Bands(x), panic |-> "none"]
      Lp(r) ==
        IF r.panic # "none"
          THEN [m |-> [m EXCEPT !.lp_band_needs_recalc = FALSE,
                                !.lp_band = r.band],
                panic |-> r.panic]
          ELSE AfterLp([m EXCEPT !.lp_band_needs_recalc = FALSE,
                                 !.lp_band = r.band])
  IN IF m.lp_band_needs_recalc
       THEN Lp(MonoMultiOrderBand_sync_params(m.lp_band, m.params.lp_band, TRUE))
       ELSE AfterLp(m)

\* MeadowEqDsp::flush_param_changes (mono)
mono_flush_param_changes(m) ==
  LET Recalculated(r) ==
        IF r.panic # "none" THEN r
        ELSE [m |-> MonoRepacked(r.m), panic |-> "none"]
      ReadBack(s) ==
        IF s.panic # "none" THEN s ELSE Recalculated(MonoRecalc(s.m))
  IN IF ~m.needs_param_flush THEN [m |-> m, panic |-> "none"]
     ELSE ReadBack(MonoStatesReadBack([m EXCEPT !.needs_param_flush = FALSE]))

\* MeadowEqDsp::sync_params_from (mono)
mono_sync_params_from(self, other) ==
  LET Synced(o) ==
        IF o.panic # "none" THEN [self |-> self, other |-> o.m, panic |-> o.panic]
        ELSE [self |->
                [self EXCEPT
                   !.needs_param_flush = FALSE,
                   !.lp_band =
                     IF ~(~self.lp_band.enabled /\ ~o.m.lp_band.enabled)
                       THEN MonoMultiOrderBand_sync_params_from(@, o.m.lp_band)
                       ELSE @,
                   !.hp_band =
                     IF ~(~self.hp_band.enabled /\ ~o.m.hp_band.enabled)
                       THEN MonoMultiOrderBand_sync_params_from(@, o.m.hp_band)
                       ELSE @,
                   !.bands =
                     [i \in BandIdx |->
                        MonoSecondOrderBand_sync_params_from(@[i], o.m.bands[i])],
                   !.packed_one_pole_filters = o.m.packed_one_pole_filters,
                   !.packed_svf_filters = o.m.packed_svf_filters],
              other |-> o.m, panic |-> "none"]
  IN Synced(IF other.needs_param_flush THEN mono_flush_param_changes(other)
            ELSE [m |-> other, panic |-> "none"])

\* The per-sample loop of process_scalar (mono) over samples j .. n: each
\* sample goes through every packed one-pole filter, then every packed SVF.
RECURSIVE MonoTickBuffer(_, _, _, _, _)
MonoTickBuffer(pop, psv, buf, j, n) ==
  LET Packed(arr, states) ==
        [k \in 1 .. Len(arr) |-> [arr[k] EXCEPT !.state = states[k]]]
      Svf(a, b) ==
        MonoTickBuffer(Packed(pop, a.states), Packed(psv, b.states),
                       [buf EXCEPT ![j] = b.out], j + 1, n)
      OnePole(a) ==
        Svf(a, TickChain("svf", [k \in 1 .. Len(psv) |-> psv[k].state], a.out,
                         [k \in 1 .. Len(psv) |-> psv[k].coeff], 1, Len(psv)))
  IN IF j > n THEN [pop |-> pop, psv |-> psv, buf |-> buf]
     ELSE OnePole(TickChain("one_pole",
                            [k \in 1 .. Len(pop) |-> pop[k].state], buf[j],
                            [k \in 1 .. Len(pop) |-> pop[k].coeff], 1, Len(pop)))

\* MeadowEqDsp::process_scalar (mono)
mono_process_scalar(m, buffer) ==
  LET Processed(x, t) ==
        [m |-> [x EXCEPT !.packed_one_pole_filters = t.pop,
                         !.packed_svf_filters = t.psv],
         buffer |-> t.buf, panic |-> "none"]
      Flushed(f) ==
        IF f.panic # "none" THEN [m |-> f.m, buffer |-> buffer, panic |-> f.panic]
        ELSE IF f.m.packed_one_pole_filters = <<>>
                /\ f.m.packed_svf_filters = <<>>
          THEN [m |-> f.m, buffer |-> buffer, panic |-> "none"]
        ELSE Processed(f.m, MonoTickBuffer(f.m.packed_one_pole_filters,
                                          f.m.packed_svf_filters, buffer, 1,
                                          Len(buffer)))
  IN Flushed(IF m.needs_param_flush THEN mono_flush_param_changes(m)
             ELSE [m |-> m, panic |-> "none"])

\* ------------------------------------------------------------------ state
VARIABLES
  coeff,        \* MeadowEqDspStereoLinked.coeff
  left_state,   \* MeadowEqDspStereoLinked.left_state
  right_state,  \* MeadowEqDspStereoLinked.right_state
  buf_l,        \* the left buffer as the last process left it
  buf_r,        \* the right buffer as the last process left it
  in_l,         \* the left buffer handed to the last process
  in_r,         \* the right buffer handed to the last process
  panic,        \* "none", or the kind of the panic that ended the run
  op,           \* the last operation called
  ret,          \* what the last flush of the coefficient engine returned
  calls,        \* number of calls made
  topo_edit,    \* a set_params since the last flush changed an enabled flag or an order
  entry,        \* needs_param_flush and topo_edit on entry to the last flush or process
  info,         \* the descriptor handed to the last sync
  pre,          \* the left state engine as it was before the last call
  slots,        \* where the last sync stored the memory of each stage and band
  pre_coeff,    \* the coefficient engine as it was before the last call
  pre_right,    \* the right state engine as it was before the last call
  last_p,       \* the parameters handed to the last set_params
  ticked,       \* the kinds of the sections the last process ticked per sample, in order
  applied,      \* the filter function applied last on its own, with its arguments
  result,       \* what that function returned
  mono,         \* the two state-embedded (mono) engines, self and other
  mono_pre,     \* the two mono engines as they were before the last call
  mono_call,    \* the last call on a mono engine: its name, engine and outcome
  at_flush      \* <<the parameters stored at the last flush>>, <<>> before the first flush

vars == <<coeff, left_state, right_state, buf_l, buf_r, in_l, in_r, panic, op,
          ret, calls, topo_edit, entry, info, pre, slots, pre_coeff, last_p,
          ticked, pre_right, applied, result, mono, mono_pre, mono_call,
          at_flush>>

MonoEngines == {"self", "other"}

NoSlots == [lp |-> NoneIdx, hp |-> NoneIdx, bands |-> [i \in BandIdx |-> NoneIdx]]

Init ==
  /\ coeff = CoeffNew
  /\ left_state = StateNew
  /\ right_state = StateNew
  /\ buf_l = <<>>
  /\ buf_r = <<>>
  /\ in_l = <<>>
  /\ in_r = <<>>
  /\ panic = "none"
  /\ op = "new"
  /\ ret = NoneInfo
  /\ calls = 0
  /\ topo_edit = FALSE
  /\ entry = [pending |-> FALSE, topo |-> FALSE]
  /\ info = StateSyncInfoDefault
  /\ pre = StateNew
  /\ slots = NoSlots
  /\ pre_coeff = CoeffNew
  /\ pre_right = StateNew
  /\ last_p = EqParamsDefault
  /\ ticked = <<>>
  /\ applied = [fn |-> "none"]
  /\ result = <<>>
  /\ mono = [e \in MonoEngines |-> MonoNew]
  /\ mono_pre = [e \in MonoEngines |-> MonoNew]
  /\ mono_call = [op |-> "new", engine |-> "self", panic |-> "none",
                  calls |-> 0, buffer |-> <<>>]
  /\ at_flush = <<>>

\* The parameter sets handed to set_params: the stored ones, or the stored
\* ones with one field of one stage or band edited.
Edits(params) ==
  {params}
  \cup {[params EXCEPT !.lp_band.enabled = ~@]}
  \cup {[params EXCEPT !.hp_band.enabled = ~@]}
  \cup {[params EXCEPT !.lp_band.order = o] : o \in FilterOrder}
  \cup {[params EXCEPT !.hp_band.order = o] : o \in FilterOrder}
  \cup {[params EXCEPT !.lp_band.cutoff_hz = f] : f \in Cutoffs}
  \cup {[params EXCEPT !.hp_band.cutoff_hz = f] : f \in Cutoffs}
  \cup {[params EXCEPT !.bands[i].enabled = ~@] : i \in BandIdx}
  \cup {[params EXCEPT !.bands[i].band_type = t] :
          i \in BandIdx, t \in BandTypeInputs}

\* p changes the enabled flag or the order of a stage, or the enabled flag of
\* a band, of the stored parameters.
TopologyDiffers(params, p) ==
  \/ params.lp_band.enabled # p.lp_band.enabled
  \/ params.lp_band.order # p.lp_band.order
  \/ params.hp_band.enabled # p.hp_band.enabled
  \/ params.hp_band.order # p.hp_band.order
  \/ \E i \in BandIdx : params.bands[i].enabled # p.bands[i].enabled

\* The buffer pairs handed to process: a unit impulse on one channel and
\* silence on the other.
BufferPairs == {<<<<F32, 0>>, <<0, 0>>>>, <<<<0, 0>>, <<F32, 0>>>>}

\* MeadowEqDspStereoLinked::set_params
SetParams(p) ==
  /\ panic = "none"
  /\ calls < MaxCalls
  /\ coeff' = set_params(coeff, p)
  /\ pre_coeff' = coeff
  /\ last_p' = p
  /\ topo_edit' = (topo_edit \/ TopologyDiffers(coeff.params, p))
  /\ op' = "set_params"
  /\ calls' = calls + 1
  /\ UNCHANGED <<left_state, right_state, buf_l, buf_r, in_l, in_r, panic,
                 ret, entry, info, pre, slots, ticked, pre_right,
                 applied, result, mono, mono_pre, mono_call,
                 at_flush>>

\* MeadowEqDspStereoLinked::flush_param_changes
FlushParamChanges ==
  /\ panic = "none"
  /\ calls < MaxCalls
  /\ LET Returned(f) == /\ coeff' = f.coeff
                        /\ left_state' = f.left
                        /\ right_state' = f.right
                        /\ ret' = f.ret
                        /\ panic' = f.panic
     IN Returned(StereoFlush(coeff, left_state, right_state))
  /\ entry' = [pending |-> coeff.needs_param_flush, topo |-> topo_edit]
  /\ topo_edit' = FALSE
  /\ op' = "flush_param_changes"
  /\ calls' = calls + 1
  /\ pre_coeff' = coeff
  /\ pre' = left_state
  /\ pre_right' = right_state
  /\ UNCHANGED <<buf_l, buf_r, in_l, in_r, info, slots, last_p, ticked,
                 applied, result, mono, mono_pre, mono_call>>
  /\ at_flush' = <<coeff.params>>

\* MeadowEqDspStereoLinked::process
Process(bl, br) ==
  /\ panic = "none"
  /\ calls < MaxCalls
  /\ LET Returned(f) == /\ coeff' = f.coeff
                        /\ left_state' = f.left
                        /\ right_state' = f.right
                        /\ buf_l' = f.buf_l
                        /\ buf_r' = f.buf_r
                        /\ ticked' = f.ticked
                        /\ panic' = f.panic
     IN Returned(process(coeff, left_state, right_state, bl, br))
  /\ in_l' = bl
  /\ in_r' = br
  /\ entry' = [pending |-> coeff.needs_param_flush, topo |-> topo_edit]
  /\ topo_edit' = IF coeff.needs_param_flush THEN FALSE ELSE topo_edit
  /\ op' = "process"
  /\ calls' = calls + 1
  /\ pre_coeff' = coeff
  /\ pre' = left_state
  /\ pre_right' = right_state
  /\ UNCHANGED <<ret, info, slots, last_p,
                 applied, result, mono, mono_pre, mono_call>>
  /\ at_flush' = IF coeff.needs_param_flush THEN <<coeff.params>>
                                            ELSE at_flush

Next ==
  \/ \E p \in Edits(coeff.params) : SetParams(p)
  \/ FlushParamChanges
  \/ \E b \in BufferPairs : Process(b[1], b[2])

Spec == Init /\ [][Next]_vars

\* ------------------------------------------- the state engine on its own
\* The shape the state engine holds, as a descriptor.
Topology(s) ==
  [lp_band_enabled |-> s.lp_band.enabled, lp_band_order |-> s.lp_band.order,
   hp_band_enabled |-> s.hp_band.enabled, hp_band_order |-> s.hp_band.order,
   bands_enabled |-> [i \in BandIdx |-> s.bands[i].enabled]]

\* The descriptors handed to sync: the shape the engine holds, or that shape
\* with one stage replaced or one band toggled.
SyncInfos(s) ==
  {Topology(s)}
  \cup {[Topology(s) EXCEPT !.lp_band_enabled = e, !.lp_band_order = o] :
          e \in BOOLEAN, o \in FilterOrder}
  \cup {[Topology(s) EXCEPT !.hp_band_enabled = e, !.hp_band_order = o] :
          e \in BOOLEAN, o \in FilterOrder}
  \cup {[Topology(s) EXCEPT !.bands_enabled[i] = ~@] : i \in BandIdx}

\* Where sync stores the memory of each stage and band it keeps enabled:
\* add_states pushes at the end of the arrays as sync found them (lp first,
\* then hp), and band i is stored at svf_states[i].
SyncSlots(s, d) ==
  LET lp_one == d.lp_band_enabled /\ d.lp_band_order = "X1"
      lp_svf == IF d.lp_band_enabled THEN SvfSections(d.lp_band_order) ELSE 0
  IN [lp |-> IF ~d.lp_band_enabled THEN NoneIdx
             ELSE IF d.lp_band_order = "X1" THEN Len(s.one_pole_states)
             ELSE Len(s.svf_states),
      hp |-> IF ~d.hp_band_enabled THEN NoneIdx
             ELSE IF d.hp_band_order = "X1"
               THEN Len(s.one_pole_states) + (IF lp_one THEN 1 ELSE 0)
             ELSE Len(s.svf_states) + lp_svf,
      bands |-> [i \in BandIdx |-> IF d.bands_enabled[i] THEN i ELSE NoneIdx]]

\* MeadowEqDspState::sync, called on the left engine
StateSync(d) ==
  /\ panic = "none"
  /\ calls < MaxSyncCalls
  /\ LET Returned(r) == /\ left_state' = r.state
                        /\ panic' = r.panic
     IN Returned(sync(left_state, d))
  /\ info' = d
  /\ pre' = left_state
  /\ slots' = SyncSlots(left_state, d)
  /\ op' = "sync"
  /\ calls' = calls + 1
  /\ UNCHANGED <<coeff, right_state, buf_l, buf_r, in_l, in_r, ret,
                 topo_edit, entry, pre_coeff, last_p, ticked, pre_right,
                 applied, result, mono, mono_pre, mono_call,
                 at_flush>>

\* MeadowEqDspState::states_mut, and the caller ticking every memory of the
\* dense arrays: each one is left holding the nonzero value v.
StateTick(v) ==
  /\ panic = "none"
  /\ calls < MaxSyncCalls
  /\ left_state.one_pole_states # <<>> \/ left_state.svf_states # <<>>
  /\ left_state' =
       [left_state EXCEPT
          !.one_pole_states = [k \in 1 .. Len(@) |-> [z1 |-> v]],
          !.svf_states = [k \in 1 .. Len(@) |-> [ic1eq |-> v, ic2eq |-> v]]]
  /\ pre' = left_state
  /\ op' = "tick"
  /\ calls' = calls + 1
  /\ UNCHANGED <<coeff, right_state, buf_l, buf_r, in_l, in_r, panic, ret,
                 topo_edit, entry, info, slots, pre_coeff, last_p, ticked,
                 pre_right,
                 applied, result, mono, mono_pre, mono_call,
                 at_flush>>

NextState ==
  \/ \E d \in SyncInfos(left_state) : StateSync(d)
  \/ \E v \in 1 .. MaxVal : StateTick(v)

SpecState == Init /\ [][NextState]_vars

\* ------------------------- the coefficient engine and one state engine
\* The descriptor of a parameter set.
Descriptor(params) ==
  [lp_band_enabled |-> params.lp_band.enabled,
   lp_band_order |-> params.lp_band.order,
   hp_band_enabled |-> params.hp_band.enabled,
   hp_band_order |-> params.hp_band.order,
   bands_enabled |-> [i \in BandIdx |-> params.bands[i].enabled]]

\* MeadowEqDspCoeff::set_params, called on the engine directly
AlignSetParams(p) ==
  /\ panic = "none"
  /\ calls < MaxCalls
  /\ coeff' = set_params(coeff, p)
  /\ pre_coeff' = coeff
  /\ last_p' = p
  /\ topo_edit' = (topo_edit \/ TopologyDiffers(coeff.params, p))
  /\ op' = "set_params"
  /\ calls' = calls + 1
  /\ UNCHANGED <<left_state, right_state, buf_l, buf_r, in_l, in_r, panic,
                 ret, entry, info, pre, slots, ticked, pre_right,
                 applied, result, mono, mono_pre, mono_call,
                 at_flush>>

\* A caller of the two engines: MeadowEqDspCoeff::flush_param_changes and,
\* when the edits flushed changed the topology, MeadowEqDspState::sync with
\* the descriptor of the stored parameters.
AlignFlushSync ==
  /\ panic = "none"
  /\ calls < MaxCalls
  /\ LET Synced(f, d, r) ==
           /\ coeff' = f.coeff
           /\ ret' = f.ret
           /\ left_state' = r.state
           /\ panic' = r.panic
           /\ info' = d
           /\ slots' = SyncSlots(left_state, d)
           /\ op' = "flush_sync"
         Flushed(f) ==
           IF f.panic = "none" /\ topo_edit
             THEN Synced(f, Descriptor(f.coeff.params),
                         sync(left_state, Descriptor(f.coeff.params)))
             ELSE /\ coeff' = f.coeff
                  /\ ret' = f.ret
                  /\ panic' = f.panic
                  /\ op' = "flush"
                  /\ UNCHANGED <<left_state, info, slots>>
     IN Flushed(flush_param_changes(coeff))
  /\ pre' = left_state
  /\ topo_edit' = FALSE
  /\ calls' = calls + 1
  /\ pre_coeff' = coeff
  /\ UNCHANGED <<right_state, buf_l, buf_r, in_l, in_r, entry, last_p,
                 ticked, pre_right,
                 applied, result, mono, mono_pre, mono_call>>
  /\ at_flush' = <<coeff.params>>

NextAlign ==
  \/ \E p \in Edits(coeff.params) : AlignSetParams(p)
  \/ AlignFlushSync

SpecAlign == Init /\ [][NextAlign]_vars

\* ------------------- the stereo-linked processor given whole snapshots
\* Parameter snapshots handed to set_params, each differing from the
\* defaults in several fields at once: bands enabled one after the other
\* and retuned, both stages at order 1, both stages at order 4 with every
\* band, a low-pass stage of order 2 and of order 6.
Snapshots ==
  LET d == EqParamsDefault
      b0 == [d EXCEPT !.bands[0].enabled = TRUE]
      b01 == [b0 EXCEPT !.bands[1].enabled = TRUE]
      both1 == [d EXCEPT !.lp_band.enabled = TRUE, !.lp_band.order = "X1",
                         !.hp_band.enabled = TRUE, !.hp_band.order = "X1"]
      lp2 == [d EXCEPT !.lp_band.enabled = TRUE]
  IN {d, b0, b01,
      [b01 EXCEPT !.bands[0].band_type = "Bell"],
      both1,
      [d EXCEPT !.lp_band.enabled = TRUE, !.lp_band.order = "X4",
                !.hp_band.enabled = TRUE, !.hp_band.order = "X4",
                !.bands = [i \in BandIdx |-> [@[i] EXCEPT !.enabled = TRUE]]],
      lp2,
      [lp2 EXCEPT !.lp_band.cutoff_hz = 1000],
      [lp2 EXCEPT !.lp_band.order = "X6"]}

\* MeadowEqDspStereoLinked::set_params with a snapshot
SnapSetParams(p) ==
  /\ panic = "none"
  /\ calls < MaxSnapCalls
  /\ coeff' = set_params(coeff, p)
  /\ pre_coeff' = coeff
  /\ last_p' = p
  /\ topo_edit' = (topo_edit \/ TopologyDiffers(coeff.params, p))
  /\ op' = "set_params"
  /\ calls' = calls + 1
  /\ UNCHANGED <<left_state, right_state, buf_l, buf_r, in_l, in_r, panic,
                 ret, entry, info, pre, slots, ticked, pre_right,
                 applied, result, mono, mono_pre, mono_call,
                 at_flush>>

\* MeadowEqDspStereoLinked::flush_param_changes
SnapFlush ==
  /\ panic = "none"
  /\ calls < MaxSnapCalls
  /\ LET Returned(f) == /\ coeff' = f.coeff
                        /\ left_state' = f.left
                        /\ right_state' = f.right
                        /\ ret' = f.ret
                        /\ panic' = f.panic
     IN Returned(StereoFlush(coeff, left_state, right_state))
  /\ entry' = [pending |-> coeff.needs_param_flush, topo |-> topo_edit]
  /\ topo_edit' = FALSE
  /\ op' = "flush_param_changes"
  /\ calls' = calls + 1
  /\ pre_coeff' = coeff
  /\ pre' = left_state
  /\ pre_right' = right_state
  /\ UNCHANGED <<buf_l, buf_r, in_l, in_r, info, slots, last_p, ticked,
                 applied, result, mono, mono_pre, mono_call>>
  /\ at_flush' = <<coeff.params>>

NextSnap ==
  \/ \E p \in Snapshots : SnapSetParams(p)
  \/ SnapFlush

SpecSnap == Init /\ [][NextSnap]_vars

\* ------------------------------- the multi-order design functions alone
\* The cutoffs and resonances the design functions are applied to: Q from
\* half to four times the Butterworth order-2 Q, as f64 and as f32 values.
DesignCutoffs == {1000, 3000}
DesignQs == {Q_BUTTERWORTH_ORD2 \div 2, Q_BUTTERWORTH_ORD2,
             (3 * Q_BUTTERWORTH_ORD2) \div 2, 2 * Q_BUTTERWORTH_ORD2,
             4 * Q_BUTTERWORTH_ORD2}

\* A call of one design function: what was called with what, and the array
\* of sections it returned.
Designed(width, order, is_lowpass, cutoff_hz, q, sections) ==
  /\ applied' = [fn |-> "design", width |-> width, order |-> order,
                 is_lowpass |-> is_lowpass, cutoff_hz |-> cutoff_hz, q |-> q]
  /\ result' = sections
  /\ UNCHANGED <<coeff, left_state, right_state, buf_l, buf_r, in_l, in_r,
                 panic, op, ret, calls, topo_edit, entry, info, pre, slots,
                 pre_coeff, last_p, ticked, pre_right, mono, mono_pre,
                 mono_call, at_flush>>

\* SvfCoeff::lowpass_ord4 (f64)
F64_lowpass_ord4(cutoff_hz, q) ==
  Designed("f64", "X4", TRUE, cutoff_hz, q, lowpass_ord4(cutoff_hz, q))

\* SvfCoeff::lowpass_ord6 (f64)
F64_lowpass_ord6(cutoff_hz, q) ==
  Designed("f64", "X6", TRUE, cutoff_hz, q, lowpass_ord6(cutoff_hz, q))

\* SvfCoeff::lowpass_ord8 (f64)
F64_lowpass_ord8(cutoff_hz, q) ==
  Designed("f64", "X8", TRUE, cutoff_hz, q, lowpass_ord8(cutoff_hz, q))

\* SvfCoeff::highpass_ord4 (f64)
F64_highpass_ord4(cutoff_hz, q) ==
  Designed("f64", "X4", FALSE, cutoff_hz, q, highpass_ord4(cutoff_hz, q))

\* SvfCoeff::highpass_ord6 (f64)
F64_highpass_ord6(cutoff_hz, q) ==
  Designed("f64", "X6", FALSE, cutoff_hz, q, highpass_ord6(cutoff_hz, q))

\* SvfCoeff::highpass_ord8 (f64)
F64_highpass_ord8(cutoff_hz, q) ==
  Designed("f64", "X8", FALSE, cutoff_hz, q, highpass_ord8(cutoff_hz, q))

\* SvfCoeff::lowpass_ord4 (f32)
F32_lowpass_ord4(cutoff_hz, q) ==
  Designed("f32", "X4", TRUE, cutoff_hz, as_f32(q),
           f32_lowpass_ord4(cutoff_hz, as_f32(q)))

\* SvfCoeff::lowpass_ord6 (f32)
F32_lowpass_ord6(cutoff_hz, q) ==
  Designed("f32", "X6", TRUE, cutoff_hz, as_f32(q),
           f32_lowpass_ord6(cutoff_hz, as_f32(q)))

\* SvfCoeff::lowpass_ord8 (f32)
F32_lowpass_ord8(cutoff_hz, q) ==
  Designed("f32", "X8", TRUE, cutoff_hz, as_f32(q),
           f32_lowpass_ord8(cutoff_hz, as_f32(q)))

\* SvfCoeff::highpass_ord4 (f32)
F32_highpass_ord4(cutoff_hz, q) ==
  Designed("f32", "X4", FALSE, cutoff_hz, as_f32(q),
           f32_highpass_ord4(cutoff_hz, as_f32(q)))

\* SvfCoeff::highpass_ord6 (f32)
F32_highpass_ord6(cutoff_hz, q) ==
  Designed("f32", "X6", FALSE, cutoff_hz, as_f32(q),
           f32_highpass_ord6(cutoff_hz, as_f32(q)))

\* SvfCoeff::highpass_ord8 (f32)
F32_highpass_ord8(cutoff_hz, q) ==
  Designed("f32", "X8", FALSE, cutoff_hz, as_f32(q),
           f32_highpass_ord8(cutoff_hz, as_f32(q)))

NextDesign ==
  \E c \in DesignCutoffs, q \in DesignQs :
    \/ F64_lowpass_ord4(c, q)
    \/ F64_lowpass_ord6(c, q)
    \/ F64_lowpass_ord8(c, q)
    \/ F64_highpass_ord4(c, q)
    \/ F64_highpass_ord6(c, q)
    \/ F64_highpass_ord8(c, q)
    \/ F32_lowpass_ord4(c, q)
    \/ F32_lowpass_ord6(c, q)
    \/ F32_lowpass_ord8(c, q)
    \/ F32_highpass_ord4(c, q)
    \/ F32_highpass_ord6(c, q)
    \/ F32_highpass_ord8(c, q)

SpecDesign == Init /\ [][NextDesign]_vars

\* ------------------------------------------ the filter kernels alone
\* The samples and filter memories the kernels are ticked with: finite
\* values of both signs, the infinities and NaN.
TickValues == {0 - F32, 0 - 1, 0, 1, F32, INFINITY, NEG_INFINITY, NAN}

\* The coefficients the kernels are ticked with: the identity records and
\* a designed low-pass of each kind.
SvfTickCoeffs ==
  {SvfCoeff_NO_OP, svf_to_f32(lowpass_ord2(1000, Q_BUTTERWORTH_ORD2))}
OnePoleTickCoeffs ==
  {OnePoleIirCoeff_NO_OP, one_pole_to_f32(one_pole_lowpass(1000))}

\* A tick of one kernel, the one call of a run: what it was applied to, and
\* the memory it left and the sample it returned.
KernelTicked(fn, state, input, c, r) ==
  /\ applied.fn = "none"
  /\ applied' = [fn |-> fn, state |-> state, input |-> input, coeff |-> c]
  /\ result' = r
  /\ UNCHANGED <<coeff, left_state, right_state, buf_l, buf_r, in_l, in_r,
                 panic, op, ret, calls, topo_edit, entry, info, pre, slots,
                 pre_coeff, last_p, ticked, pre_right, mono, mono_pre,
                 mono_call, at_flush>>

\* SvfState::tick on a memory of its own
SvfTick(ic1eq, ic2eq, input, c) ==
  KernelTicked("svf_tick", [ic1eq |-> ic1eq, ic2eq |-> ic2eq], input, c,
               SvfState_tick([ic1eq |-> ic1eq, ic2eq |-> ic2eq], input, c))

\* OnePoleIirState::tick on a memory of its own
OnePoleTick(z1, input, c) ==
  KernelTicked("one_pole_tick", [z1 |-> z1], input, c,
               OnePoleIirState_tick([z1 |-> z1], input, c))

NextTick ==
  \/ \E a \in TickValues, b \in TickValues, x \in TickValues,
        c \in SvfTickCoeffs : SvfTick(a, b, x, c)
  \/ \E a \in TickValues, x \in TickValues, c \in OnePoleTickCoeffs :
        OnePoleTick(a, x, c)

SpecTick == Init /\ [][NextTick]_vars

\* ------------------- the state-embedded (mono) variant, two engines
\* The calls made on the mono engines in one run.
MaxMonoCalls == 5

\* Parameter snapshots handed to the mono set_params: the defaults, each
\* stage enabled alone and both together, a low-pass stage of order 1, a
\* retuned low-pass stage, and a band.
MonoSnapshots ==
  LET d == EqParamsDefault
      lp == [d EXCEPT !.lp_band.enabled = TRUE]
  IN {d, lp,
      [d EXCEPT !.hp_band.enabled = TRUE],
      [lp EXCEPT !.hp_band.enabled = TRUE],
      [lp EXCEPT !.lp_band.order = "X1"],
      [lp EXCEPT !.lp_band.cutoff_hz = 1000],
      [d EXCEPT !.bands[0].enabled = TRUE]}

\* The buffer handed to the mono process_scalar: one sample of 1.0.
MonoBuffer == <<F32>>

\* A call on mono engine e: the engines and the outcome it left.
MonoCalled(name, e, engines, p, buffer) ==
  /\ mono_call.panic = "none"
  /\ mono_call.calls < MaxMonoCalls
  /\ mono' = engines
  /\ mono_pre' = mono
  /\ mono_call' = [op |-> name, engine |-> e, panic |-> p,
                   calls |-> mono_call.calls + 1, buffer |-> buffer]
  /\ UNCHANGED <<coeff, left_state, right_state, buf_l, buf_r, in_l, in_r,
                 panic, op, ret, calls, topo_edit, entry, info, pre, slots,
                 pre_coeff, last_p, ticked, pre_right, applied, result,
                 at_flush>>

\* MeadowEqDsp::set_params on mono engine e
MonoSetParams(e, p) ==
  MonoCalled("set_params", e, [mono EXCEPT ![e] = mono_set_params(@, p)],
             "none", <<>>)

\* MeadowEqDsp::flush_param_changes on mono engine e
MonoFlush(e) ==
  LET Flushed(f) ==
        MonoCalled("flush_param_changes", e, [mono EXCEPT ![e] = f.m],
                   f.panic, <<>>)
  IN Flushed(mono_flush_param_changes(mono[e]))

\* MeadowEqDsp::process_scalar on mono engine e
MonoProcess(e) ==
  LET Processed(r) ==
        MonoCalled("process_scalar", e, [mono EXCEPT ![e] = r.m], r.panic,
                   r.buffer)
  IN Processed(mono_process_scalar(mono[e], MonoBuffer))

\* self.sync_params_from(other) on the mono engines
MonoSyncParamsFrom ==
  LET Synced(r) ==
        MonoCalled("sync_params_from", "self",
                   [mono EXCEPT !["self"] = r.self, !["other"] = r.other],
                   r.panic, <<>>)
  IN Synced(mono_sync_params_from(mono["self"], mono["other"]))

NextMono ==
  \/ \E e \in MonoEngines, p \in MonoSnapshots : MonoSetParams(e, p)
  \/ \E e \in MonoEngines : MonoFlush(e)
  \/ \E e \in MonoEngines : MonoProcess(e)
  \/ MonoSyncParamsFrom

SpecMono == Init /\ [][NextMono]_vars

\* ------------------------------------------------------------------ claims
\* The canonical layout of the dense arrays for a descriptor d: low-pass
\* stage, high-pass stage, bands 0 .. N-1, compacted.
OnePoleCount(d) ==
  (IF d.lp_band_enabled /\ d.lp_band_order = "X1" THEN 1 ELSE 0)
  + (IF d.hp_band_enabled /\ d.hp_band_order = "X1" THEN 1 ELSE 0)

LpSvfCount(d) == IF d.lp_band_enabled THEN SvfSections(d.lp_band_order) ELSE 0
HpSvfCount(d) == IF d.hp_band_enabled THEN SvfSections(d.hp_band_order) ELSE 0

BandSlot(d, i) ==
  LpSvfCount(d) + HpSvfCount(d)
  + Cardinality({j \in BandIdx : j < i /\ d.bands_enabled[j]})

SvfCount(d) == BandSlot(d, NumBands)

AllDisabled(params) ==
  /\ ~params.lp_band.enabled
  /\ ~params.hp_band.enabled
  /\ \A i \in BandIdx : ~params.bands[i].enabled

\* C1: whenever process reaches its per-sample loops, each coefficient array
\* is as long as the left and the right state array of its kind (the
\* assert_eq! checks of process never fail).
C1_LengthAssertsHold ==
  (op = "process" /\ panic \in {"none", "assert_eq"}) =>
    /\ panic = "none"
    /\ coeff.one_pole_coeffs # <<>> =>
         /\ Len(coeff.one_pole_coeffs) = Len(left_state.one_pole_states)
         /\ Len(coeff.one_pole_coeffs) = Len(right_state.one_pole_states)
    /\ coeff.svf_coeffs # <<>> =>
         /\ Len(coeff.svf_coeffs) = Len(left_state.svf_states)
         /\ Len(coeff.svf_coeffs) = Len(right_state.svf_states)

\* C2: flush_param_changes returns a descriptor exactly when a set_params
\* since the previous flush changed an enabled flag or an order, and the
\* descriptor returned is that of the stored parameters.
C2_DescriptorIffTopologyEdited ==
  (op = "flush_param_changes" /\ panic = "none") =>
    /\ ret.is_some <=> entry.topo
    /\ ret.is_some => ret.info = Descriptor(coeff.params)

\* C3: when band A is the only enabled band and sync enables band B as well,
\* the slot of A holds afterwards what it held before and the slot of B is
\* zero.
C3_ReindexPreservesMemory ==
  \A a \in BandIdx, b \in BandIdx :
    ( /\ op = "sync"
      /\ panic = "none"
      /\ a # b
      /\ ~pre.lp_band.enabled
      /\ ~pre.hp_band.enabled
      /\ \A i \in BandIdx : pre.bands[i].enabled <=> i = a
      /\ pre.svf_states # <<>>
      /\ info = [Topology(pre) EXCEPT !.bands_enabled[b] = TRUE] ) =>
    /\ Len(left_state.svf_states) >= 2
    /\ left_state.svf_states[BandSlot(info, a) + 1] = pre.svf_states[1]
    /\ left_state.svf_states[BandSlot(info, b) + 1] = SvfStateDefault

\* C4: after sync, a stage or band that was disabled and is enabled by the
\* descriptor has zero in each of its slots of the dense arrays.
C4_ActivatedStartsAtZero ==
  (op = "sync" /\ panic = "none") =>
    /\ (~pre.lp_band.enabled /\ info.lp_band_enabled) =>
         IF info.lp_band_order = "X1"
           THEN /\ Len(left_state.one_pole_states) >= 1
                /\ left_state.one_pole_states[1] = OnePoleIirStateDefault
           ELSE /\ Len(left_state.svf_states) >= LpSvfCount(info)
                /\ \A k \in 1 .. LpSvfCount(info) :
                     left_state.svf_states[k] = SvfStateDefault
    /\ (~pre.hp_band.enabled /\ info.hp_band_enabled) =>
         IF info.hp_band_order = "X1"
           THEN /\ Len(left_state.one_pole_states) >= OnePoleCount(info)
                /\ left_state.one_pole_states[OnePoleCount(info)]
                     = OnePoleIirStateDefault
           ELSE /\ Len(left_state.svf_states)
                     >= LpSvfCount(info) + HpSvfCount(info)
                /\ \A k \in 1 .. HpSvfCount(info) :
                     left_state.svf_states[LpSvfCount(info) + k]
                       = SvfStateDefault
    /\ \A i \in BandIdx :
         (~pre.bands[i].enabled /\ info.bands_enabled[i]) =>
           /\ Len(left_state.svf_states) > BandSlot(info, i)
           /\ left_state.svf_states[BandSlot(info, i) + 1] = SvfStateDefault

\* C5: after flush_param_changes the coefficient arrays hold one entry per
\* enabled order-1 stage, and 1/2/3/4 entries per enabled stage of order
\* 2/4/6/8 plus one per enabled band; nothing disabled holds a slot.
C5_CoeffArraysCompact ==
  (op = "flush_param_changes" /\ panic = "none") =>
    /\ Len(coeff.one_pole_coeffs) = OnePoleCount(Descriptor(coeff.params))
    /\ Len(coeff.svf_coeffs) = SvfCount(Descriptor(coeff.params))

\* C6: after sync(info) the dense state arrays have the lengths the
\* descriptor requires.
C6_StateArraysSized ==
  (op = "sync" /\ panic = "none") =>
    /\ Len(left_state.one_pole_states) = OnePoleCount(info)
    /\ Len(left_state.svf_states) = SvfCount(info)

\* C7: after a topology-changing flush and a sync with the matching
\* descriptor, every enabled stage and band has its coefficients and its
\* memory at the same indices of the arrays of its kind.
C7_SlotsAligned ==
  (op = "flush_sync" /\ panic = "none") =>
    /\ coeff.params.lp_band.enabled =>
         IF coeff.params.lp_band.order = "X1"
           THEN /\ coeff.lp_band.one_pole_iir_i = slots.lp
                /\ slots.lp < Len(coeff.one_pole_coeffs)
           ELSE /\ coeff.lp_band.svf_filter_i = slots.lp
                /\ slots.lp + LpSvfCount(info) <= Len(coeff.svf_coeffs)
    /\ coeff.params.hp_band.enabled =>
         IF coeff.params.hp_band.order = "X1"
           THEN /\ coeff.hp_band.one_pole_iir_i = slots.hp
                /\ slots.hp < Len(coeff.one_pole_coeffs)
           ELSE /\ coeff.hp_band.svf_filter_i = slots.hp
                /\ slots.hp + HpSvfCount(info) <= Len(coeff.svf_coeffs)
    /\ \A i \in BandIdx :
         coeff.params.bands[i].enabled =>
           /\ coeff.bands[i].svf_filter_i = slots.bands[i]
           /\ slots.bands[i] < Len(coeff.svf_coeffs)

\* C8: after flush_param_changes the coefficient arrays are those of a fresh
\* engine given the stored parameters in one set_params and flushed once.
C8_CoeffsDependOnParamsOnly ==
  (op = "flush_param_changes" /\ panic = "none") =>
    LET Same(fresh) ==
          /\ fresh.panic = "none"
          /\ coeff.one_pole_coeffs = fresh.coeff.one_pole_coeffs
          /\ coeff.svf_coeffs = fresh.coeff.svf_coeffs
    IN Same(flush_param_changes(set_params(CoeffNew, coeff.params)))

\* C9: when both stages and every band of the stored parameters are
\* disabled, process returns and leaves both buffers as it was given them.
C9_NoOpIdentity ==
  (op = "process" /\ AllDisabled(coeff.params)) =>
    /\ panic = "none"
    /\ buf_l = in_l
    /\ buf_r = in_r

\* C9 witness: a process of an impulse with everything disabled, after the
\* low-pass stage was enabled, flushed and disabled again.
C9_Witness ==
  /\ op = "process"
  /\ AllDisabled(coeff.params)
  /\ panic = "none"
  /\ entry.pending
  /\ entry.topo
  /\ coeff.lp_band.order = "X2"
  /\ in_l[1] = F32
  /\ buf_l = in_l

\* C10: a process entered with a flush pending flushes the coefficients
\* and, when the pending edits changed the topology, syncs both state
\* engines to the new topology before the first sample is ticked.
C10_ProcessFlushesAndSyncs ==
  (op = "process" /\ entry.pending /\ panic \in {"none", "assert_eq"}) =>
    /\ ~coeff.needs_param_flush
    /\ entry.topo =>
         /\ Topology(left_state) = Descriptor(coeff.params)
         /\ Topology(right_state) = Descriptor(coeff.params)

\* Sections first .. first + n - 1 (numbered from 0) of a coefficient array
\* are the same in engine c as in engine d, wherever d holds them.
SameCoeffs(c_arr, d_arr, first, n) ==
  \A k \in 0 .. (n - 1) :
    (first # NoneIdx /\ first + k < Len(d_arr)) =>
      /\ first + k < Len(c_arr)
      /\ c_arr[first + k + 1] = d_arr[first + k + 1]

\* The coefficients engine d holds for a stage are the same in engine c.
StageCoeffsKept(c, d, band, params) ==
  IF params.order = "X1"
    THEN SameCoeffs(c.one_pole_coeffs, d.one_pole_coeffs,
                    band.one_pole_iir_i, 1)
    ELSE SameCoeffs(c.svf_coeffs, d.svf_coeffs, band.svf_filter_i,
                    SvfSections(params.order))

\* C11: a flush that follows only tuning edits returns no descriptor, leaves
\* the lengths of both coefficient arrays as they were, leaves the
\* coefficients of every enabled stage or band that was not edited as they
\* were, and leaves the state arrays as they were.
C11_TuningOnlyFlush ==
  (op = "flush_param_changes" /\ entry.pending /\ ~entry.topo) =>
    /\ panic = "none"
    /\ ~ret.is_some
    /\ Len(coeff.one_pole_coeffs) = Len(pre_coeff.one_pole_coeffs)
    /\ Len(coeff.svf_coeffs) = Len(pre_coeff.svf_coeffs)
    /\ (pre_coeff.params.lp_band.enabled
        /\ ~pre_coeff.lp_band_needs_param_sync) =>
         StageCoeffsKept(coeff, pre_coeff, pre_coeff.lp_band,
                         pre_coeff.params.lp_band)
    /\ (pre_coeff.params.hp_band.enabled
        /\ ~pre_coeff.hp_band_needs_param_sync) =>
         StageCoeffsKept(coeff, pre_coeff, pre_coeff.hp_band,
                         pre_coeff.params.hp_band)
    /\ \A i \in BandIdx :
         (pre_coeff.params.bands[i].enabled
          /\ ~pre_coeff.bands_needing_param_sync[i]) =>
           SameCoeffs(coeff.svf_coeffs, pre_coeff.svf_coeffs,
                      pre_coeff.bands[i].svf_filter_i, 1)
    /\ left_state.one_pole_states = pre.one_pole_states
    /\ left_state.svf_states = pre.svf_states

\* The stage holds the same enabled flag before and after a sync and its
\* order goes from old to new: the sections of the kind of the new order
\* that the stage did not occupy under the old one, numbered from 1.
NewSections(old, new) ==
  IF new = "X1" THEN (IF old = "X1" THEN {} ELSE {1})
  ELSE IF old = "X1" THEN 1 .. SvfSections(new)
  ELSE (SvfSections(old) + 1) .. SvfSections(new)

\* C12: when sync changes the order of an enabled stage, every section the
\* stage did not occupy immediately before the sync has zero state in the
\* dense array after the sync.
C12_OrderChangeResetsTail ==
  (op = "sync" /\ panic = "none") =>
    /\ (pre.lp_band.enabled /\ info.lp_band_enabled) =>
         \A k \in NewSections(pre.lp_band.order, info.lp_band_order) :
           IF info.lp_band_order = "X1"
             THEN /\ Len(left_state.one_pole_states) >= 1
                  /\ left_state.one_pole_states[1] = OnePoleIirStateDefault
             ELSE /\ Len(left_state.svf_states) >= k
                  /\ left_state.svf_states[k] = SvfStateDefault
    /\ (pre.hp_band.enabled /\ info.hp_band_enabled) =>
         \A k \in NewSections(pre.hp_band.order, info.hp_band_order) :
           IF info.hp_band_order = "X1"
             THEN /\ Len(left_state.one_pole_states) >= OnePoleCount(info)
                  /\ left_state.one_pole_states[OnePoleCount(info)]
                       = OnePoleIirStateDefault
             ELSE /\ Len(left_state.svf_states) >= LpSvfCount(info) + k
                  /\ left_state.svf_states[LpSvfCount(info) + k]
                       = SvfStateDefault

\* The sample buffers a channel is given.
ChannelInputs == {b[1] : b \in BufferPairs} \cup {b[2] : b \in BufferPairs}

\* State arrays of the lengths process asserts, with zero memory.
ZeroOnePoleStates(c) ==
  [k \in 1 .. Len(c.one_pole_coeffs) |-> OnePoleIirStateDefault]
ZeroSvfStates(c) == [k \in 1 .. Len(c.svf_coeffs) |-> SvfStateDefault]

StageKinds(params) ==
  IF ~params.enabled THEN <<>>
  ELSE IF params.order = "X1" THEN <<"one_pole">>
  ELSE [k \in 1 .. SvfSections(params.order) |-> "svf"]

\* The kinds of the active sections in the order low-pass stage, high-pass
\* stage, bands.
ExpectedKinds(params) ==
  StageKinds(params.lp_band) \o StageKinds(params.hp_band)
  \o [k \in 1 .. Cardinality({i \in BandIdx : params.bands[i].enabled})
        |-> "svf"]

\* The kinds of the sections the loops of process tick for one sample, given
\* state arrays of the lengths process asserts.
LoopKinds(c) ==
  ProcessKind("one_pole", c.one_pole_coeffs, ZeroOnePoleStates(c),
              ZeroOnePoleStates(c), <<0>>, <<0>>).ticked
  \o ProcessKind("svf", c.svf_coeffs, ZeroSvfStates(c), ZeroSvfStates(c),
                 <<0>>, <<0>>).ticked

\* C14: for every sample process ticks the active sections in the order
\* low-pass stage, high-pass stage, bands 0 .. N-1, whatever the orders of
\* the stages.
C14_TickOrder ==
  (op = "process" /\ panic \in {"none", "assert_eq"}) =>
    /\ (panic = "none" /\ in_l # <<>>) => ticked = ExpectedKinds(coeff.params)
    /\ ( /\ Len(coeff.one_pole_coeffs) = OnePoleCount(Descriptor(coeff.params))
         /\ Len(coeff.svf_coeffs) = SvfCount(Descriptor(coeff.params)) ) =>
         LoopKinds(coeff) = ExpectedKinds(coeff.params)

\* C15: set_params(p) with p equal to the stored parameters changes nothing
\* in the coefficient engine: the stored parameters, needs_param_flush, the
\* topology-changed flag, every dirty flag, the slot indices and both
\* coefficient arrays are what they were before the call.
C15_IdenticalSetParamsNoOp ==
  (op = "set_params" /\ last_p = pre_coeff.params) => coeff = pre_coeff

\* An identical set_params on an engine that has flushed coefficients and
\* holds no pending edit.
C15_Witness ==
  /\ op = "set_params"
  /\ last_p = pre_coeff.params
  /\ ~pre_coeff.needs_param_flush
  /\ pre_coeff.svf_coeffs # <<>>
  /\ coeff = pre_coeff

\* C16: after set_params(p) with p different from the stored parameters
\* needs_param_flush is true; the dirty flag of a stage or band is set by the
\* call exactly when that sub-record of p differs from the stored one (a flag
\* set earlier stays set); and needs_param_flush goes from true to false
\* only in a flush_param_changes, called directly or by process.
C16_SetParamsMarksFlush ==
  /\ op = "set_params" =>
       /\ last_p # pre_coeff.params => coeff.needs_param_flush
       /\ coeff.lp_band_needs_param_sync =
            (pre_coeff.lp_band_needs_param_sync
               \/ last_p.lp_band # pre_coeff.params.lp_band)
       /\ coeff.hp_band_needs_param_sync =
            (pre_coeff.hp_band_needs_param_sync
               \/ last_p.hp_band # pre_coeff.params.hp_band)
       /\ \A i \in BandIdx :
            coeff.bands_needing_param_sync[i] =
              (pre_coeff.bands_needing_param_sync[i]
                 \/ last_p.bands[i] # pre_coeff.params.bands[i])
  /\ (pre_coeff.needs_param_flush /\ ~coeff.needs_param_flush) =>
       (op \in {"flush_param_changes", "process"} /\ entry.pending)

\* A set_params that edits band 0 and the low-pass stage at once, on an
\* engine where band 1 was already waiting for a flush.
C16_Witness ==
  /\ op = "set_params"
  /\ last_p.bands[0] # pre_coeff.params.bands[0]
  /\ last_p.lp_band # pre_coeff.params.lp_band
  /\ last_p.hp_band = pre_coeff.params.hp_band
  /\ pre_coeff.bands_needing_param_sync[1]
  /\ coeff.needs_param_flush
  /\ coeff.bands_needing_param_sync[0]
  /\ coeff.lp_band_needs_param_sync
  /\ ~coeff.hp_band_needs_param_sync

\* C17: from a set_params(p) until the next set_params, params() returns
\* exactly p, whether or not a flush or a process has happened in between
\* (before the first set_params it returns the defaults of new).
C17_ParamsRoundTrip == StereoParams(coeff) = last_p

\* A flush that found edits pending has completed and params() still returns
\* the non-default parameters of the last set_params.
C17_Witness ==
  /\ op = "flush_param_changes"
  /\ panic = "none"
  /\ entry.pending
  /\ last_p # EqParamsDefault
  /\ coeff.svf_coeffs # <<>>
  /\ StereoParams(coeff) = last_p

\* C18: set_params leaves one_pole_coeffs and svf_coeffs (contents and
\* lengths) and every stored slot index as they were; the coefficient arrays
\* differ from what they were before a call only after a
\* flush_param_changes, called directly or by process, that found edits
\* pending.
C18_SetParamsDefers ==
  /\ op = "set_params" =>
       /\ coeff.one_pole_coeffs = pre_coeff.one_pole_coeffs
       /\ coeff.svf_coeffs = pre_coeff.svf_coeffs
       /\ coeff.lp_band = pre_coeff.lp_band
       /\ coeff.hp_band = pre_coeff.hp_band
       /\ coeff.bands = pre_coeff.bands
  /\ ( \/ coeff.one_pole_coeffs # pre_coeff.one_pole_coeffs
       \/ coeff.svf_coeffs # pre_coeff.svf_coeffs ) =>
       (op \in {"flush_param_changes", "process"} /\ entry.pending)

\* A set_params that disables a stage or band, or changes an order, on an
\* engine holding flushed coefficients: the arrays still hold them.
C18_Witness ==
  /\ op = "set_params"
  /\ TopologyDiffers(pre_coeff.params, last_p)
  /\ pre_coeff.svf_coeffs # <<>>
  /\ ~pre_coeff.needs_param_flush
  /\ coeff.svf_coeffs = pre_coeff.svf_coeffs
  /\ coeff.needs_param_flush

\* C19: a flush_param_changes entered with needs_param_flush false returns
\* None and leaves the coefficient engine (stored parameters, flags, slot
\* indices, both coefficient arrays) and both state engines as they were;
\* a flush that returns leaves needs_param_flush false, so a second flush
\* right after it is such a call.
C19_FlushWithoutEditsNoOp ==
  /\ (op = "flush_param_changes" /\ ~entry.pending) =>
       /\ panic = "none"
       /\ ~ret.is_some
       /\ coeff = pre_coeff
       /\ left_state = pre
       /\ right_state = pre_right
  /\ (op = "flush_param_changes" /\ panic = "none") =>
       ~coeff.needs_param_flush

\* A flush with nothing pending on an engine that holds flushed
\* coefficients: the second of two consecutive flushes.
C19_Witness ==
  /\ op = "flush_param_changes"
  /\ ~entry.pending
  /\ coeff.svf_coeffs # <<>>
  /\ coeff = pre_coeff
  /\ ~ret.is_some

\* C20: after any sequence of set_params and flush_param_changes calls
\* one_pole_coeffs holds at most MAX_ONE_POLE_FILTERS entries and svf_coeffs
\* at most NUM_BANDS + 8, and no flush has pushed onto a full array.
C20_CoeffArraysWithinCapacity ==
  /\ Len(coeff.one_pole_coeffs) <= MAX_ONE_POLE_FILTERS
  /\ Len(coeff.svf_coeffs) <= NUM_BANDS_PLUS_8
  /\ panic # "capacity"

\* A flush has filled one_pole_coeffs to its capacity: both stages are
\* enabled at order 1.
C20_Witness ==
  /\ op = "flush_param_changes"
  /\ panic = "none"
  /\ entry.pending
  /\ Len(coeff.one_pole_coeffs) = MAX_ONE_POLE_FILTERS
  /\ coeff.params.lp_band.enabled
  /\ coeff.params.hp_band.enabled

\* C21: the parameters of a freshly constructed engine have both stages and
\* every band disabled, the high-pass stage at 20 Hz, the low-pass stage
\* near Nyquist (above a quarter of the sample rate), and every Q equal to
\* the Butterworth order-2 Q.
C21_DefaultParams ==
  op = "new" =>
    /\ AllDisabled(StereoParams(coeff))
    /\ StereoParams(coeff).hp_band.cutoff_hz = 20
    /\ StereoParams(coeff).lp_band.cutoff_hz * 4 > SampleRate
    /\ StereoParams(coeff).lp_band.q = Q_BUTTERWORTH_ORD2
    /\ StereoParams(coeff).hp_band.q = Q_BUTTERWORTH_ORD2
    /\ \A i \in BandIdx : StereoParams(coeff).bands[i].q = Q_BUTTERWORTH_ORD2

\* The sections the Butterworth tables of the stage's own order give.
OwnOrderDesign(order, is_lowpass, cutoff_hz, q) ==
  CASE order = "X4" -> IF is_lowpass THEN lowpass_ord4(cutoff_hz, q)
                                     ELSE highpass_ord4(cutoff_hz, q)
    [] order = "X6" -> IF is_lowpass THEN lowpass_ord6(cutoff_hz, q)
                                     ELSE highpass_ord6(cutoff_hz, q)
    [] order = "X8" -> IF is_lowpass THEN lowpass_ord8(cutoff_hz, q)
                                     ELSE highpass_ord8(cutoff_hz, q)

OwnOrderSections(p, is_lowpass) ==
  LET d == OwnOrderDesign(p.order, is_lowpass, p.cutoff_hz, p.q)
  IN [k \in 1 .. Len(d) |-> svf_to_f32(d[k])]

\* C22: a flush that recomputes an enabled stage of order 4, 6 or 8 into
\* empty arrays, the stage holding no slot yet, returns and leaves exactly
\* 2, 3 or 4 SVF sections for it, section i designed from entry i of the
\* Butterworth table of that order with that order's Q scale.
C22_CascadeSections ==
  /\ ( /\ op = "flush_param_changes"
       /\ pre_coeff.lp_band_needs_param_sync
       /\ pre_coeff.svf_coeffs = <<>>
       /\ pre_coeff.lp_band.svf_filter_i = NoneIdx
       /\ pre_coeff.params.lp_band.enabled
       /\ ~pre_coeff.params.hp_band.enabled
       /\ \A i \in BandIdx : ~pre_coeff.params.bands[i].enabled
       /\ pre_coeff.params.lp_band.order \in {"X4", "X6", "X8"} ) =>
       /\ panic = "none"
       /\ coeff.svf_coeffs = OwnOrderSections(pre_coeff.params.lp_band, TRUE)
  /\ ( /\ op = "flush_param_changes"
       /\ pre_coeff.hp_band_needs_param_sync
       /\ pre_coeff.svf_coeffs = <<>>
       /\ pre_coeff.hp_band.svf_filter_i = NoneIdx
       /\ pre_coeff.params.hp_band.enabled
       /\ ~pre_coeff.params.lp_band.enabled
       /\ \A i \in BandIdx : ~pre_coeff.params.bands[i].enabled
       /\ pre_coeff.params.hp_band.order \in {"X4", "X6", "X8"} ) =>
       /\ panic = "none"
       /\ coeff.svf_coeffs = OwnOrderSections(pre_coeff.params.hp_band, FALSE)

\* The Q scale factor and the pole-Q table of an order, in the unit (F64 or
\* F32) of the function's arithmetic.
OwnScale(order, unit) ==
  LET s == CASE order = "X4" -> ORD4_Q_SCALE
             [] order = "X6" -> ORD6_Q_SCALE
             [] order = "X8" -> ORD8_Q_SCALE
  IN (s * unit) \div F64

OwnTable(order, unit) ==
  LET t == CASE order = "X4" -> Q_BUTTERWORTH_ORD4
             [] order = "X6" -> Q_BUTTERWORTH_ORD6
             [] order = "X8" -> Q_BUTTERWORTH_ORD8
  IN [i \in 1 .. Len(t) |-> (t[i] * unit) \div F64]

\* The damping 1/q of section i when the normalized Q qn is compressed above
\* 1.0 with the scale factor of the function's own order.
OwnDamping(order, unit, qn, i) ==
  LET scaled == IF qn > unit
                  THEN unit + (((qn - unit) * OwnScale(order, unit)) \div unit)
                  ELSE qn
  IN (unit * unit) \div ((scaled * OwnTable(order, unit)[i]) \div unit)

\* The first feedback coefficient 1 / (1 + g (g + k)).
A1Of(unit, gg, k) ==
  (unit * unit * unit) \div ((unit * unit) + gg * (gg + k))

\* C23: every multi-order design function, low-pass and high-pass, f32 and
\* f64, returns one section per entry of its order's table, and section i
\* has the damping of a normalized Q that is left alone up to 1.0 and
\* compressed above 1.0 with the scale factor of the function's own order.
C23_OwnOrderQScale ==
  applied.fn = "design" =>
    LET unit == IF applied.width = "f64" THEN F64 ELSE F32
        qn == IF applied.width = "f64" THEN q_norm(applied.q)
                                       ELSE f32_q_norm(applied.q)
        gg == IF applied.width = "f64" THEN g(applied.cutoff_hz)
                                       ELSE f32_g(applied.cutoff_hz)
    IN /\ Len(result) = Len(OwnTable(applied.order, unit))
       /\ \A i \in 1 .. Len(result) :
            /\ result[i].a1 =
                 A1Of(unit, gg, OwnDamping(applied.order, unit, qn, i))
            /\ ~applied.is_lowpass =>
                 result[i].m1 = 0 - OwnDamping(applied.order, unit, qn, i)

\* C24: on a fresh stereo-linked processor with only the low-pass stage
\* enabled, at order 2, process of a buffer whose first sample is a unit
\* impulse completes, and the first output sample is what one tick of that
\* stage's SVF section (its order-2 low-pass coefficients) gives from zero
\* state.
C24_KnownFilterImpulse ==
  ( /\ op = "process"
    /\ pre = StateNew
    /\ coeff.params.lp_band.enabled
    /\ coeff.params.lp_band.order = "X2"
    /\ ~coeff.params.hp_band.enabled
    /\ \A i \in BandIdx : ~coeff.params.bands[i].enabled
    /\ in_l[1] = F32 ) =>
    /\ panic = "none"
    /\ buf_l[1] =
         SvfState_tick(SvfStateDefault, F32,
                       svf_to_f32(lowpass_ord2(coeff.params.lp_band.cutoff_hz,
                                               coeff.params.lp_band.q))).out

\* The last call was a tick of a kernel with its NO_OP coefficients.
NoOpTick ==
  \/ applied.fn = "svf_tick" /\ applied.coeff = SvfCoeff_NO_OP
  \/ applied.fn = "one_pole_tick" /\ applied.coeff = OnePoleIirCoeff_NO_OP

\* The input and every memory of the last tick were finite.
FiniteTick ==
  /\ applied.input # NAN /\ ~IsInf(applied.input)
  /\ \A f \in DOMAIN applied.state :
       applied.state[f] # NAN /\ ~IsInf(applied.state[f])

MonoStageFollows(band, params, is_lowpass) ==
  /\ band.enabled = params.enabled
  /\ params.enabled =>
       /\ band.order = params.order
       /\ IF params.order = "X1"
            THEN band.packed_one_pole_iir.coeff =
                   one_pole_to_f32(IF is_lowpass
                                     THEN one_pole_lowpass(params.cutoff_hz)
                                     ELSE one_pole_highpass(params.cutoff_hz))
            ELSE \A k \in 1 .. SvfSections(params.order) :
                   LET d == MultiOrderDesign(params.order, is_lowpass,
                                             params.cutoff_hz, params.q)
                   IN k <= Len(d) =>
                        band.packed_svfs[k].coeff = svf_to_f32(d[k])

\* The enabled flag and the coefficients of a stage.
MonoStageTuning(band) ==
  [enabled |-> band.enabled,
   one_pole |-> band.packed_one_pole_iir.coeff,
   svfs |-> [k \in 1 .. 4 |-> band.packed_svfs[k].coeff]]

\* C26: in the mono variant, a flush_param_changes that follows an edit of
\* the high-pass stage alone leaves the high-pass stage with the flag, order
\* and coefficients its high-pass parameters give, and leaves the low-pass
\* stage's enabled flag and coefficients as they were.
C26_MonoHpEditFlush ==
  LET e == mono_call.engine
  IN (/\ mono_call.op = "flush_param_changes"
      /\ mono_call.panic = "none"
      /\ mono_pre[e].needs_param_flush
      /\ mono_pre[e].hp_band_needs_recalc
      /\ ~mono_pre[e].lp_band_needs_recalc)
     => /\ MonoStageFollows(mono[e].hp_band, mono[e].params.hp_band, FALSE)
        /\ MonoStageTuning(mono[e].lp_band) = MonoStageTuning(mono_pre[e].lp_band)

\* The running memories of the active sections of a mono engine, read from
\* its packed arrays at the slots the sections occupy: per stage the
\* memories of its sections in order, per band its memory.
MonoRunning(m) ==
  LET r == MonoStatesReadBack(m).m
      Stage(b) ==
        IF ~b.enabled THEN <<>>
        ELSE IF b.order = "X1" THEN <<b.packed_one_pole_iir.state>>
        ELSE [k \in 1 .. SvfSections(b.order) |-> b.packed_svfs[k].state]
  IN [lp |-> Stage(r.lp_band), hp |-> Stage(r.hp_band),
      bands |-> [i \in BandIdx |->
                   IF r.bands[i].enabled THEN <<r.bands[i].packed_svf.state>>
                   ELSE <<>>]]

\* Every memory a mono engine holds, in its packed arrays or in its stages
\* and bands, and the reset memories.
MonoHeld(m) ==
  {m.packed_one_pole_filters[k].state : k \in DOMAIN m.packed_one_pole_filters}
  \cup {m.packed_svf_filters[k].state : k \in DOMAIN m.packed_svf_filters}
  \cup {m.lp_band.packed_one_pole_iir.state, m.hp_band.packed_one_pole_iir.state}
  \cup {m.lp_band.packed_svfs[k].state : k \in 1 .. 4}
  \cup {m.hp_band.packed_svfs[k].state : k \in 1 .. 4}
  \cup {m.bands[i].packed_svf.state : i \in BandIdx}
  \cup {OnePoleIirStateDefault, SvfStateDefault}

\* C27: in the mono variant, sync_params_from(other) leaves the running
\* memory of every section of self that is active before and after the call
\* as it was, and every memory in self's packed arrays after the call is one
\* self held before the call or a reset one, never one taken from other.
C27_MonoSyncTransfersTuningOnly ==
  (mono_call.op = "sync_params_from" /\ mono_call.panic = "none") =>
    LET was == mono_pre["self"]
        now == mono["self"]
        Kept(a, b) ==
          \A k \in 1 .. Min(Len(a), Len(b)) :
            DOMAIN a[k] = DOMAIN b[k] => a[k] = b[k]
    IN /\ Kept(MonoRunning(was).lp, MonoRunning(now).lp)
       /\ Kept(MonoRunning(was).hp, MonoRunning(now).hp)
       /\ \A i \in BandIdx :
            Kept(MonoRunning(was).bands[i], MonoRunning(now).bands[i])
       /\ \A k \in DOMAIN now.packed_one_pole_filters :
            now.packed_one_pole_filters[k].state \in MonoHeld(was)
       /\ \A k \in DOMAIN now.packed_svf_filters :
            now.packed_svf_filters[k].state \in MonoHeld(was)

\* A write of n sections through a stored slot index stays inside the array.
StoredIndexValid(idx, arr, n) == idx = NoneIdx \/ idx + n <= Len(arr)

\* The stage writes through a valid stored index when the flush recomputes
\* it on engine c.
StageIndexValid(c, is_lowpass) ==
  LET dirty == IF is_lowpass THEN c.lp_band_needs_param_sync
                             ELSE c.hp_band_needs_param_sync
      band == IF is_lowpass THEN c.lp_band ELSE c.hp_band
      params == IF is_lowpass THEN c.params.lp_band ELSE c.params.hp_band
  IN (dirty /\ params.enabled) =>
       IF params.order = "X1"
         THEN StoredIndexValid(band.one_pole_iir_i, c.one_pole_coeffs, 1)
         ELSE StoredIndexValid(band.svf_filter_i, c.svf_coeffs,
                               SectionsWritten(params.order))

\* Every band from band_i on writes through a valid stored index when the
\* flush recomputes it, each on the engine the bands before it left.
RECURSIVE BandIndexesValid(_, _)
BandIndexesValid(c, band_i) ==
  LET Rest(r) == r.panic = "none" =>
                   BandIndexesValid(
                     [c EXCEPT !.bands[band_i] = r.band,
                               !.svf_coeffs = r.svf_coeffs], band_i + 1)
  IN IF band_i >= NumBands THEN TRUE
     ELSE IF ~c.bands_needing_param_sync[band_i]
       THEN BandIndexesValid(c, band_i + 1)
     ELSE /\ c.params.bands[band_i].enabled =>
               StoredIndexValid(c.bands[band_i].svf_filter_i, c.svf_coeffs, 1)
          /\ Rest(CoeffSecondOrderBand_sync_params(
                    c.bands[band_i], c.params.bands[band_i], c.svf_coeffs))

\* Every write through a stored index that flush_param_changes makes on
\* engine c stays inside the array as it is at the time of the write.
FlushIndexesValid(c) ==
  LET Hp(r) == r.panic = "none" =>
                 /\ StageIndexValid(r.coeff, FALSE)
                 /\ LET Bands(h) == h.panic = "none" =>
                                      BandIndexesValid(h.coeff, 0)
                    IN Bands(FlushStage(r.coeff, FALSE))
      Lp(c0) == /\ StageIndexValid(c0, TRUE)
                /\ Hp(FlushStage(c0, TRUE))
  IN Lp(FlushClear([c EXCEPT !.needs_param_flush = FALSE]))

\* C28: in every flush_param_changes that has edits to apply, each stage or
\* band that writes through its stored one_pole_iir_i or svf_filter_i finds
\* the index, and the index of its last section, below the length of the
\* array at that moment.
C28_StoredIndexValidInFlush ==
  (op = "flush_param_changes" /\ entry.pending) => FlushIndexesValid(pre_coeff)

\* The stored slot ranges of the enabled stages and bands of engine c, per
\* coefficient array: the set of array positions held by the low-pass
\* stage, the high-pass stage and each band, in this order.
StoredSlotRanges(c) ==
  LET Stage(band, params) ==
        IF ~params.enabled THEN [one_pole |-> {}, svf |-> {}]
        ELSE IF band.order = "X1"
          THEN [one_pole |-> IF band.one_pole_iir_i = NoneIdx THEN {}
                             ELSE {band.one_pole_iir_i},
                svf |-> {}]
          ELSE [one_pole |-> {},
                svf |-> IF band.svf_filter_i = NoneIdx THEN {}
                        ELSE band.svf_filter_i ..
                             (band.svf_filter_i + SvfSections(band.order) - 1)]
      Band(i) ==
        [one_pole |-> {},
         svf |-> IF c.params.bands[i].enabled
                    /\ c.bands[i].svf_filter_i # NoneIdx
                   THEN {c.bands[i].svf_filter_i} ELSE {}]
  IN <<Stage(c.lp_band, c.params.lp_band), Stage(c.hp_band, c.params.hp_band)>>
     \o [k \in 1 .. NumBands |-> Band(k - 1)]

\* C29: after a set_params or a flush_param_changes that did not panic, no
\* two enabled stages or bands hold stored slot ranges that overlap in the
\* one-pole array or in the SVF array.
C29_SlotOwnershipExclusive ==
  panic = "none" =>
    \A a, b \in DOMAIN StoredSlotRanges(coeff) :
      a # b =>
        /\ StoredSlotRanges(coeff)[a].one_pole
             \cap StoredSlotRanges(coeff)[b].one_pole = {}
        /\ StoredSlotRanges(coeff)[a].svf
             \cap StoredSlotRanges(coeff)[b].svf = {}

\* C30: MeadowEqDspState::sync never panics: after every sync call of a
\* sequence on a fresh state engine, no read or write of one_pole_states or
\* svf_states was out of bounds and no push went past the capacity.
C30_SyncNeverPanics == op = "sync" => panic = "none"

\* The dense arrays and the per-stage and per-band enabled and order fields
\* of a state engine.
SyncVisible(s) ==
  [one_pole_states |-> s.one_pole_states,
   svf_states |-> s.svf_states,
   lp_band |-> [enabled |-> s.lp_band.enabled, order |-> s.lp_band.order],
   hp_band |-> [enabled |-> s.hp_band.enabled, order |-> s.hp_band.order],
   bands |-> [i \in BandIdx |-> s.bands[i].enabled]]

\* C31: MeadowEqDspState::sync is idempotent: after a sync that did not
\* panic, a second sync with the same descriptor does not panic and leaves
\* the dense arrays (lengths and contents) and the enabled and order fields
\* as the first call left them.
C31_SyncIdempotent ==
  (op = "sync" /\ panic = "none") =>
    LET Again(r) == /\ r.panic = "none"
                    /\ SyncVisible(r.state) = SyncVisible(left_state)
    IN Again(sync(left_state, info))

\* C32: a flush_param_changes that has edits to apply, with the stored
\* parameters equal to those stored at the flush before it, leaves both
\* coefficient arrays with the lengths and contents they had before the
\* edits (set_params does not touch the arrays, so before the call).
C32_CancelledEditsHarmless ==
  [][(/\ op' = "flush_param_changes"
      /\ coeff.needs_param_flush
      /\ at_flush = <<coeff.params>>)
     => /\ coeff'.one_pole_coeffs = coeff.one_pole_coeffs
        /\ coeff'.svf_coeffs = coeff.svf_coeffs]_vars

\* C33: in every reachable state of the coefficient engine, if
\* needs_param_flush is false then num_filters_changed is false and no
\* low-pass, high-pass or band dirty flag is set.
C33_FlagsConsistent ==
  ~coeff.needs_param_flush =>
    /\ ~coeff.num_filters_changed
    /\ ~coeff.lp_band_needs_param_sync
    /\ ~coeff.hp_band_needs_param_sync
    /\ \A i \in BandIdx : ~coeff.bands_needing_param_sync[i]

\* The sections the parameters of a mono engine call for, in the order
\* low-pass stage, high-pass stage, bands 0 .. N-1, as packed entries taken
\* from the engine's stages and bands: the one-pole ones and the SVF ones.
MonoSectionsCalledFor(m) ==
  LET OnePole(band, params) ==
        IF params.enabled /\ params.order = "X1"
          THEN <<band.packed_one_pole_iir>> ELSE <<>>
      Svf(band, params) ==
        IF params.enabled
          THEN SubSeq(band.packed_svfs, 1, SvfSections(params.order))
          ELSE <<>>
      RECURSIVE Bands(_)
      Bands(i) ==
        IF i >= NumBands THEN <<>>
        ELSE (IF m.params.bands[i].enabled THEN <<m.bands[i].packed_svf>>
              ELSE <<>>) \o Bands(i + 1)
  IN [one_pole |-> OnePole(m.lp_band, m.params.lp_band)
                     \o OnePole(m.hp_band, m.params.hp_band),
      svf |-> Svf(m.lp_band, m.params.lp_band)
                \o Svf(m.hp_band, m.params.hp_band) \o Bands(0)]

\* The running memories of the sections of a stage that is enabled with
\* the same order in engines a and b are the same in both, and so is the
\* running memory of every band enabled in both.
MonoRunningKept(a, b) ==
  LET Same(x, y) == \A k \in 1 .. Min(Len(x), Len(y)) : x[k] = y[k]
  IN /\ (a.lp_band.enabled /\ b.lp_band.enabled
           /\ a.lp_band.order = b.lp_band.order)
          => Same(MonoRunning(a).lp, MonoRunning(b).lp)
     /\ (a.hp_band.enabled /\ b.hp_band.enabled
           /\ a.hp_band.order = b.hp_band.order)
          => Same(MonoRunning(a).hp, MonoRunning(b).hp)
     /\ \A i \in BandIdx :
          Same(MonoRunning(a).bands[i], MonoRunning(b).bands[i])

\* C34: in the mono variant, a flush_param_changes that has edits to apply
\* leaves every section that is enabled before and after it with unchanged
\* order holding the running memory it held before, and leaves the packed
\* arrays holding exactly the sections of the stages and bands the
\* parameters enable, in the order low-pass, high-pass, bands 0 .. N-1.
C34_MonoFlushKeepsState ==
  LET e == mono_call.engine
  IN (/\ mono_call.op = "flush_param_changes"
      /\ mono_call.panic = "none"
      /\ mono_pre[e].needs_param_flush)
     => /\ MonoRunningKept(mono_pre[e], mono[e])
        /\ mono[e].packed_one_pole_filters
             = MonoSectionsCalledFor(mono[e]).one_pole
        /\ mono[e].packed_svf_filters = MonoSectionsCalledFor(mono[e]).svf

====
